---- MODULE Spec2Model ----
(***************************************************************************)
(* Verification model of ReDyne's AArch64 decoder (DisassemblyEngine.c)     *)
(* and Objective-C runtime-surface scanner (ClassDumpC.c).                  *)
(*                                                                          *)
(* C strings are sequences of one-character strings.  A uint32_t is a       *)
(* record [hi, lo] of two 16-bit halves and a uint64_t / int64_t is a       *)
(* 4-tuple of 16-bit limbs (least significant first, two's complement),     *)
(* so that all arithmetic keeps its C width.                                *)
(***************************************************************************)
EXTENDS Integers, Sequences, FiniteSets, TLC

VARIABLES
    ctx,        \* DisassemblyContext: [flags |-> set of the flags that are set]
    bytes,      \* the instruction word handed to disasm_arm64
    address,    \* its virtual address
    ctxarg,     \* context argument of the last disasm_arm64 call: [null, flags]
    inst,       \* the DisassembledInstruction output record
    ret,        \* value returned by the last disasm_arm64 call ("none" before it)
    memo,       \* first decode remembered for the determinism property
    binary,     \* the bytes of the file class_dump_binary maps
    beyond,     \* the bytes that lie after the mapping
    result,     \* class_dump_result_t: [classes, categories, protocols]
    phase,      \* class_dump_binary: "idle", or done with ("fallback") or without ("scanned") the fallback
    scenario,   \* the names the mapped file was built from
    header,     \* what the last header emitter call returned
    stale       \* the lists of the result whose stored pointer was freed by realloc

\* the decoder's variables
decvars == <<ctx, bytes, address, ctxarg, inst, ret, memo>>

\* the scanner's and the header emitter's variables
scanvars == <<binary, beyond, result, phase, scenario, header, stale>>

vars == <<ctx, bytes, address, ctxarg, inst, ret, memo,
          binary, beyond, result, phase, scenario, header, stale>>

(***************************************************************************)
(* Fixed-width integers                                                     *)
(***************************************************************************)
Pow2(n) == 2 ^ n

L16 == 2 ^ 16

\* ((bytes >> lo) & (2^n - 1)) for a uint32_t, n <= 30
Bits(w, lo, n) ==
    IF lo >= 16 THEN (w.hi \div Pow2(lo - 16)) % Pow2(n)
    ELSE IF lo + n <= 16 THEN (w.lo \div Pow2(lo)) % Pow2(n)
    ELSE (w.hi % Pow2(lo + n - 16)) * Pow2(16 - lo) + (w.lo \div Pow2(lo))

\* (bytes >> lo) with no mask, for lo >= 16 only (the result fits a half)
ShiftR(w, lo) == w.hi \div Pow2(lo - 16)

U32(hi, lo) == [hi |-> hi, lo |-> lo]

\* a non-negative int below 2^31 as uint64_t
U64OfNat(n) == <<n % L16, (n \div L16) % L16, 0, 0>>

\* bitwise complement of a uint64_t
Not64(a) == <<L16 - 1 - a[1], L16 - 1 - a[2], L16 - 1 - a[3], L16 - 1 - a[4]>>

\* (int64_t)v for an int v with |v| < 2^31, two's complement
I64OfInt(v) == IF v >= 0 THEN U64OfNat(v) ELSE Not64(U64OfNat(-v - 1))

\* (int64_t)(uint32_t)w and (uint64_t)w: zero extension
U64OfU32(w) == <<w.lo, w.hi, 0, 0>>

\* a + b modulo 2^64
Add64(a, b) ==
    LET s1 == a[1] + b[1]
        s2 == a[2] + b[2] + s1 \div L16
        s3 == a[3] + b[3] + s2 \div L16
        s4 == a[4] + b[4] + s3 \div L16
    IN  <<s1 % L16, s2 % L16, s3 % L16, s4 % L16>>

\* a << 12 modulo 2^64
Shl12(a) ==
    LET m1 == a[1] * 4096
        m2 == a[2] * 4096 + m1 \div L16
        m3 == a[3] * 4096 + m2 \div L16
        m4 == a[4] * 4096 + m3 \div L16
    IN  <<m1 % L16, m2 % L16, m3 % L16, m4 % L16>>

\* address & ~0xFFFULL
PageOf(a) == <<a[1] - (a[1] % 4096), a[2], a[3], a[4]>>

Zero64 == <<0, 0, 0, 0>>

(***************************************************************************)
(* C strings and printf conversions                                         *)
(***************************************************************************)
LowerHex == <<"0","1","2","3","4","5","6","7","8","9","a","b","c","d","e","f">>
UpperHex == <<"0","1","2","3","4","5","6","7","8","9","A","B","C","D","E","F">>

RECURSIVE FmtU(_)
\* printf("%u") of a non-negative int
FmtU(n) == IF n < 10 THEN <<LowerHex[n + 1]>>
           ELSE FmtU(n \div 10) \o <<LowerHex[(n % 10) + 1]>>

\* printf("%d")
FmtD(n) == IF n < 0 THEN <<"-">> \o FmtU(-n) ELSE FmtU(n)

RECURSIVE FmtHexNat(_, _)
\* printf("%x") / printf("%X") of a non-negative int, by digit table
FmtHexNat(n, tab) == IF n < 16 THEN <<tab[n + 1]>>
                     ELSE FmtHexNat(n \div 16, tab) \o <<tab[(n % 16) + 1]>>

\* the four hex digits of a 16-bit half
Hex4(h, tab) == <<tab[(h \div 4096) + 1], tab[((h \div 256) % 16) + 1],
                  tab[((h \div 16) % 16) + 1], tab[(h % 16) + 1]>>

RECURSIVE StripZeros(_)
StripZeros(s) == IF Len(s) > 1 /\ s[1] = "0" THEN StripZeros(Tail(s)) ELSE s

\* printf("%llx") of a uint64_t
FmtLLX(a) == StripZeros(Hex4(a[4], LowerHex) \o Hex4(a[3], LowerHex)
                        \o Hex4(a[2], LowerHex) \o Hex4(a[1], LowerHex))

\* printf("%08X") of a uint32_t
Fmt08X(w) == Hex4(w.hi, UpperHex) \o Hex4(w.lo, UpperHex)

\* strstr(hay, needle) != NULL
strstr(hay, needle) ==
    \E i \in 1..(Len(hay) - Len(needle) + 1) :
        SubSeq(hay, i, i + Len(needle) - 1) = needle

\* index of the first occurrence of needle in hay at or after from, 0 if none
FindFrom(hay, needle, from) ==
    LET hits == {i \in from..(Len(hay) - Len(needle) + 1) :
                    SubSeq(hay, i, i + Len(needle) - 1) = needle}
    IN  IF hits = {} THEN 0 ELSE CHOOSE i \in hits : \A j \in hits : i <= j

\* strchr(s + from - 1, ch): index of ch at or after from, 0 if none
strchr(s, ch, from) == FindFrom(s, <<ch>>, from)

(***************************************************************************)
(* String helpers of DisassemblyEngine.c                                    *)
(***************************************************************************)
\* arm64_register_name: "X0".."X30","SP" or "W0".."W30","WSP"
arm64_register_name(reg, is_64bit) ==
    IF reg > 31 THEN <<"?","?","?">>
    ELSE IF reg = 31 THEN (IF is_64bit THEN <<"S","P">> ELSE <<"W","S","P">>)
    ELSE (IF is_64bit THEN <<"X">> ELSE <<"W">>) \o FmtU(reg)

arm64_condition_string(cond) ==
    IF cond < 16
    THEN <<<<"E","Q">>, <<"N","E">>, <<"C","S">>, <<"C","C">>, <<"M","I">>, <<"P","L">>, <<"V","S">>, <<"V","C">>,
           <<"H","I">>, <<"L","S">>, <<"G","E">>, <<"L","T">>, <<"G","T">>, <<"L","E">>, <<"A","L">>, <<"N","V">>>>[cond + 1]
    ELSE <<"?","?">>

\* ctx->flags is a bit mask, modelled as the set of the flags that are set
DISASM_FLAG_PROLOGUE_EPILOGUE_HEURISTICS == "PROLOGUE_EPILOGUE_HEURISTICS"

\* !ctx || !(ctx->flags & DISASM_FLAG_PROLOGUE_EPILOGUE_HEURISTICS);
\* the context argument c is [null |-> BOOLEAN, flags |-> set of flags]
HeuristicsOff(c) == c.null \/ DISASM_FLAG_PROLOGUE_EPILOGUE_HEURISTICS \notin c.flags

\* variant: the pair is looked for as the literal text "X29, X30"
arm64_is_prologue_ordered(c, i) ==
    IF HeuristicsOff(c) THEN FALSE
    ELSE /\ strstr(i.mnemonic, <<"S","T","P">>)
         /\ strstr(i.operands, <<"X","2","9",","," ","X","3","0">>)
         /\ strstr(i.operands, <<"#","-">>)

arm64_is_prologue(c, i) ==
    IF HeuristicsOff(c) THEN FALSE
    ELSE /\ strstr(i.mnemonic, <<"S","T","P">>)
         /\ strstr(i.operands, <<"X","2","9">>)
         /\ strstr(i.operands, <<"X","3","0">>)
         /\ strstr(i.operands, <<"#","-">>)

\* variant: the LDP test does not look at the heuristics flag
arm64_is_epilogue_always(c, i) ==
    \/ i.mnemonic = <<"R","E","T">>
    \/ /\ strstr(i.mnemonic, <<"L","D","P">>)
       /\ strstr(i.operands, <<"X","2","9">>)
       /\ strstr(i.operands, <<"X","3","0">>)

\* variant: RET is recognised only under the heuristics flag
arm64_is_epilogue_gated(c, i) ==
    IF HeuristicsOff(c) THEN FALSE
    ELSE \/ i.mnemonic = <<"R","E","T">>
         \/ /\ strstr(i.mnemonic, <<"L","D","P">>)
            /\ strstr(i.operands, <<"X","2","9">>)
            /\ strstr(i.operands, <<"X","3","0">>)

arm64_is_epilogue(c, i) ==
    IF i.mnemonic = <<"R","E","T">> THEN TRUE
    ELSE IF HeuristicsOff(c) THEN FALSE
    ELSE /\ strstr(i.mnemonic, <<"L","D","P">>)
         /\ strstr(i.operands, <<"X","2","9">>)
         /\ strstr(i.operands, <<"X","3","0">>)

(***************************************************************************)
(* disasm_arm64                                                             *)
(***************************************************************************)
\* the record after memset(inst, 0, sizeof *inst)
ZeroInst ==
    [address |-> Zero64, raw_bytes |-> U32(0, 0), length |-> 0,
     mnemonic |-> <<>>, operands |-> <<>>, full_disasm |-> <<>>,
     category |-> "unknown", has_branch |-> FALSE, branch_type |-> "none",
     has_branch_target |-> FALSE, branch_target |-> Zero64,
     branch_offset |-> Zero64, updates_pc |-> FALSE,
     regs_read |-> {}, regs_written |-> {}, flags_written |-> 0,
     is_function_start |-> FALSE, is_function_end |-> FALSE,
     is_valid |-> FALSE]

\* sign extension of an n-bit field value
SignExt(v, n) == IF v >= Pow2(n - 1) THEN v - Pow2(n) ELSE v

\* variant: the immediate is not scaled by the instruction size
DecodeBranchImm_unscaled(z, b, a) ==
    LET is_link == Bits(b, 31, 1) = 1
        imm26   == SignExt(Bits(b, 0, 26), 26)
        offset  == I64OfInt(imm26)
        target  == Add64(a, offset)
    IN  [z EXCEPT !.mnemonic = IF is_link THEN <<"B","L">> ELSE <<"B">>,
                  !.branch_target = target,
                  !.branch_offset = offset,
                  !.has_branch_target = TRUE,
                  !.has_branch = TRUE,
                  !.branch_type = IF is_link THEN "call" ELSE "unconditional",
                  !.operands = <<"0","x">> \o FmtLLX(target),
                  !.category = "branch",
                  !.is_valid = TRUE,
                  !.updates_pc = TRUE,
                  !.regs_written = IF is_link THEN @ \cup {30} ELSE @]

\* lines 323-344: B / BL
DecodeBranchImm(z, b, a) ==
    LET is_link == Bits(b, 31, 1) = 1
        imm26   == SignExt(Bits(b, 0, 26), 26)
        offset  == I64OfInt(imm26 * 4)
        target  == Add64(a, offset)
    IN  [z EXCEPT !.mnemonic = IF is_link THEN <<"B","L">> ELSE <<"B">>,
                  !.branch_target = target,
                  !.branch_offset = offset,
                  !.has_branch_target = TRUE,
                  !.has_branch = TRUE,
                  !.branch_type = IF is_link THEN "call" ELSE "unconditional",
                  !.operands = <<"0","x">> \o FmtLLX(target),
                  !.category = "branch",
                  !.is_valid = TRUE,
                  !.updates_pc = TRUE,
                  !.regs_written = IF is_link THEN @ \cup {30} ELSE @]

\* uint32_t imm = (immhi << 2) | immlo; if (imm & (1u << 20)) imm |= 0xFFF00000u;
AdrImm(b) ==
    LET immlo == Bits(b, 29, 2)
        immhi == Bits(b, 5, 19)
        imm   == immhi * 4 + immlo
    IN  IF imm >= Pow2(20)
        THEN U32(65520 + ((imm \div L16) % 16), imm % L16)
        ELSE U32(imm \div L16, imm % L16)

\* lines 346-380: ADR / ADRP
DecodeAdr(z, b, a) ==
    LET is_adrp == Bits(b, 31, 1) # 0
        imm     == AdrImm(b)
        offset  == IF is_adrp THEN Shl12(U64OfU32(imm)) ELSE U64OfU32(imm)
        target  == IF is_adrp THEN Add64(PageOf(a), offset) ELSE Add64(a, offset)
        rd      == Bits(b, 0, 5)
    IN  [z EXCEPT !.mnemonic = IF is_adrp THEN <<"A","D","R","P">> ELSE <<"A","D","R">>,
                  !.operands = arm64_register_name(rd, TRUE) \o <<","," ","0","x">> \o FmtLLX(target),
                  !.category = "data-processing",
                  !.is_valid = TRUE,
                  !.regs_written = @ \cup {rd},
                  !.has_branch = FALSE,
                  !.has_branch_target = TRUE,
                  !.branch_target = target,
                  !.branch_offset = offset]

\* lines 382-411: BR / BLR / RET / BRAA
DecodeBranchReg(z, b, a) ==
    LET rn  == Bits(b, 5, 5)
        opc == Bits(b, 21, 2)
    IN  [z EXCEPT !.mnemonic = IF opc = 0 THEN <<"B","R">> ELSE IF opc = 1 THEN <<"B","L","R">>
                               ELSE IF opc = 2 THEN <<"R","E","T">> ELSE <<"B","R","A","A">>,
                  !.operands = arm64_register_name(rn, TRUE),
                  !.has_branch = TRUE,
                  !.branch_type = IF opc = 2 THEN "return"
                                  ELSE IF opc = 1 THEN "call" ELSE "unconditional",
                  !.category = "branch",
                  !.is_valid = TRUE,
                  !.updates_pc = TRUE,
                  !.regs_read = @ \cup {rn},
                  !.regs_written = IF opc = 1 THEN @ \cup {30} ELSE @,
                  !.is_function_end = IF opc = 2 THEN TRUE ELSE @]

\* lines 413-455: LDP / STP
DecodePair(z, b, a) ==
    LET is_load  == Bits(b, 22, 1) = 1
        is_64bit == Bits(b, 31, 1) = 1
        rt   == Bits(b, 0, 5)
        rt2  == Bits(b, 10, 5)
        rn   == Bits(b, 5, 5)
        imm7 == SignExt(Bits(b, 15, 7), 7)
        offset == imm7 * (IF is_64bit THEN 8 ELSE 4)
        idx  == Bits(b, 23, 2)
        regs == arm64_register_name(rt, is_64bit) \o <<","," ">>
                \o arm64_register_name(rt2, is_64bit) \o <<","," ","[">>
                \o arm64_register_name(rn, TRUE)
    IN  [z EXCEPT !.mnemonic = IF is_load THEN <<"L","D","P">> ELSE <<"S","T","P">>,
                  !.operands = IF idx = 3 THEN regs \o <<","," ","#">> \o FmtD(offset) \o <<"]","!">>
                               ELSE IF idx = 1 THEN regs \o <<"]",","," ","#">> \o FmtD(offset)
                               ELSE regs \o <<","," ","#">> \o FmtD(offset) \o <<"]">>,
                  !.category = "load-store",
                  !.is_valid = TRUE,
                  !.regs_written = IF is_load THEN @ \cup {rt, rt2} ELSE @,
                  !.regs_read = IF is_load THEN @ \cup {rn} ELSE @ \cup {rt, rt2, rn}]

\* lines 460-482: ADD / SUB immediate
DecodeAddSubImm(z, b) ==
    LET is_sub   == Bits(b, 30, 1) = 1
        is_64bit == Bits(b, 31, 1) = 1
        rd    == Bits(b, 0, 5)
        rn    == Bits(b, 5, 5)
        imm12 == Bits(b, 10, 12)
        shift == Bits(b, 22, 2)
        \* uint32_t imm = imm12 << (shift * 12); the matched words have shift <= 1
        imm   == imm12 * Pow2(shift * 12)
    IN  [z EXCEPT !.mnemonic = IF is_sub THEN <<"S","U","B">> ELSE <<"A","D","D">>,
                  !.operands = arm64_register_name(rd, is_64bit) \o <<","," ">>
                               \o arm64_register_name(rn, is_64bit) \o <<","," ","#">> \o FmtU(imm),
                  !.category = "data-processing",
                  !.is_valid = TRUE,
                  !.regs_read = @ \cup {rn},
                  !.regs_written = @ \cup {rd},
                  !.flags_written = IF Bits(b, 20, 1) = 1 THEN 15 ELSE @]

\* lines 483-506: MOVZ / MOVN / MOVK
DecodeMovWide(z, b) ==
    LET opc      == Bits(b, 29, 2)
        is_64bit == Bits(b, 31, 1) = 1
        rd    == Bits(b, 0, 5)
        imm16 == Bits(b, 5, 16)
    IN  [z EXCEPT !.mnemonic = IF opc = 2 THEN <<"M","O","V","Z">> ELSE IF opc = 0 THEN <<"M","O","V","N">>
                               ELSE IF opc = 3 THEN <<"M","O","V","K">> ELSE <<"M","O","V">>,
                  !.operands = arm64_register_name(rd, is_64bit) \o <<","," ","#","0","x">>
                               \o FmtHexNat(imm16, UpperHex),
                  !.category = "data-processing",
                  !.is_valid = TRUE,
                  !.regs_read = IF opc = 3 THEN @ \cup {rd} ELSE {},
                  !.regs_written = @ \cup {rd}]

\* lines 457-507: the block entered when bit 3 of op0 (word bit 28) is set
DecodeOp0Bit3(z, b) ==
    LET f == Bits(b, 23, 6)
    IN  IF f = 34 \/ f = 50 THEN DecodeAddSubImm(z, b)
        ELSE IF f = 37 \/ f = 5 \/ f = 53 THEN DecodeMovWide(z, b)
        ELSE z

\* lines 511-528: B.cond
DecodeBCond(z, b, a) ==
    LET cond   == Bits(b, 0, 4)
        imm19  == SignExt(Bits(b, 5, 19), 19)
        offset == I64OfInt(imm19 * 4)
        target == Add64(a, offset)
    IN  [z EXCEPT !.mnemonic = <<"B",".">> \o arm64_condition_string(cond),
                  !.branch_target = target,
                  !.branch_offset = offset,
                  !.has_branch_target = TRUE,
                  !.has_branch = TRUE,
                  !.branch_type = "conditional",
                  !.operands = <<"0","x">> \o FmtLLX(target),
                  !.category = "branch",
                  !.is_valid = TRUE,
                  !.updates_pc = TRUE]

\* lines 529-550: CBZ / CBNZ
DecodeCbz(z, b, a) ==
    LET is_cbnz  == Bits(b, 24, 1) = 1
        is_64bit == Bits(b, 31, 1) = 1
        rt     == Bits(b, 0, 5)
        imm19  == SignExt(Bits(b, 5, 19), 19)
        offset == I64OfInt(imm19 * 4)
        target == Add64(a, offset)
    IN  [z EXCEPT !.mnemonic = IF is_cbnz THEN <<"C","B","N","Z">> ELSE <<"C","B","Z">>,
                  !.branch_target = target,
                  !.branch_offset = offset,
                  !.has_branch_target = TRUE,
                  !.has_branch = TRUE,
                  !.branch_type = "conditional",
                  !.operands = arm64_register_name(rt, is_64bit) \o <<","," ","0","x">> \o FmtLLX(target),
                  !.category = "branch",
                  !.is_valid = TRUE,
                  !.updates_pc = TRUE,
                  !.regs_read = @ \cup {rt}]

\* lines 551-572: TBZ / TBNZ
DecodeTbz(z, b, a) ==
    LET is_tbnz     == Bits(b, 24, 1) = 1
        is_64bit_op == Bits(b, 31, 1) = 1
        rt      == Bits(b, 0, 5)
        bit_pos == Bits(b, 19, 5) + 32 * Bits(b, 31, 1)
        imm14   == SignExt(Bits(b, 5, 14), 14)
        offset  == I64OfInt(imm14 * 4)
        target  == Add64(a, offset)
    IN  [z EXCEPT !.mnemonic = IF is_tbnz THEN <<"T","B","N","Z">> ELSE <<"T","B","Z">>,
                  !.branch_target = target,
                  !.branch_offset = offset,
                  !.has_branch_target = TRUE,
                  !.has_branch = TRUE,
                  !.branch_type = "conditional",
                  !.operands = arm64_register_name(rt, is_64bit_op) \o <<","," ","#">>
                               \o FmtU(bit_pos) \o <<","," ","0","x">> \o FmtLLX(target),
                  !.category = "branch",
                  !.is_valid = TRUE,
                  !.updates_pc = TRUE]

\* lines 509-573: first (op0 & 0xE) == 0xA block
DecodeCondBranch(z, b, a) ==
    IF Bits(b, 24, 8) = 84 THEN DecodeBCond(z, b, a)
    ELSE IF Bits(b, 24, 7) = 52 \/ Bits(b, 24, 7) = 53 THEN DecodeCbz(z, b, a)
    ELSE IF Bits(b, 24, 7) = 54 \/ Bits(b, 24, 7) = 55 THEN DecodeTbz(z, b, a)
    ELSE z

\* lines 575-629: (op0 & 0xB) == 0x8 block, LDR / STR / LDUR / STUR / LDR literal
DecodeLoadStore(z, b, a) ==
    LET size == Bits(b, 30, 2)
        top  == ShiftR(b, 24)
        op11 == Bits(b, 21, 11)
        rt   == Bits(b, 0, 5)
        rn   == Bits(b, 5, 5)
        is_load == Bits(b, 22, 1) = 1
    IN  IF top = 185 \/ top = 249 \/ top = 57 \/ top = 121
        THEN LET imm12  == Bits(b, 10, 12)
                 offset == imm12 * Pow2(size)
             IN  [z EXCEPT !.mnemonic = IF is_load THEN <<"L","D","R">> ELSE <<"S","T","R">>,
                           !.operands = arm64_register_name(rt, size = 3) \o <<","," ","[">>
                                        \o arm64_register_name(rn, TRUE) \o <<","," ","#">>
                                        \o FmtU(offset) \o <<"]">>,
                           !.category = "load-store",
                           !.is_valid = TRUE]
        ELSE IF op11 = 448 \/ op11 = 449 \/ op11 = 960 \/ op11 = 961
        THEN LET imm9 == SignExt(Bits(b, 12, 9), 9)
             IN  [z EXCEPT !.mnemonic = IF is_load THEN <<"L","D","U","R">> ELSE <<"S","T","U","R">>,
                           !.operands = arm64_register_name(rt, size >= 2) \o <<","," ","[">>
                                        \o arm64_register_name(rn, TRUE) \o <<","," ","#">>
                                        \o FmtD(imm9) \o <<"]">>,
                           !.category = "load-store",
                           !.is_valid = TRUE]
        ELSE IF top = 24 \/ top = 88 \/ top = 152 \/ top = 216
        THEN LET imm19  == SignExt(Bits(b, 5, 19), 19)
                 target == Add64(a, I64OfInt(imm19 * 4))
             IN  [z EXCEPT !.mnemonic = <<"L","D","R">>,
                           !.operands = arm64_register_name(rt, TRUE) \o <<","," ","0","x">> \o FmtLLX(target),
                           !.category = "load-store",
                           !.is_valid = TRUE,
                           !.regs_written = @ \cup {rt}]
        ELSE z

\* lines 632-678: logical (shifted register), with the ORR Xd, XZR, Xm alias
DecodeLogical(z, b) ==
    LET opc      == Bits(b, 29, 2)
        is_64bit == Bits(b, 31, 1) = 1
        rd == Bits(b, 0, 5)
        rn == Bits(b, 5, 5)
        rm == Bits(b, 16, 5)
        N  == Bits(b, 21, 1) = 1
        imm6 == Bits(b, 10, 6)
        shift_type == Bits(b, 22, 2)
        shift_name == IF shift_type = 0 THEN <<"L","S","L">> ELSE IF shift_type = 1 THEN <<"L","S","R">>
                      ELSE IF shift_type = 2 THEN <<"A","S","R">> ELSE <<"R","O","R">>
        mn == IF opc = 0 THEN (IF N THEN <<"B","I","C">> ELSE <<"A","N","D">>)
              ELSE IF opc = 1 THEN (IF N THEN <<"O","R","N">> ELSE <<"O","R","R">>)
              ELSE IF opc = 2 THEN (IF N THEN <<"E","O","N">> ELSE <<"E","O","R">>)
              ELSE (IF N THEN <<"B","I","C","S">> ELSE <<"A","N","D","S">>)
        three == arm64_register_name(rd, is_64bit) \o <<","," ">>
                 \o arm64_register_name(rn, is_64bit) \o <<","," ">>
                 \o arm64_register_name(rm, is_64bit)
    IN  IF ~N /\ opc = 1 /\ rn = 31
        THEN [z EXCEPT !.mnemonic = <<"M","O","V">>,
                       !.operands = arm64_register_name(rd, is_64bit) \o <<","," ">>
                                    \o arm64_register_name(rm, is_64bit),
                       !.regs_read = @ \cup {rm},
                       !.regs_written = @ \cup {rd},
                       !.category = "data-processing",
                       !.is_valid = TRUE]
        ELSE [z EXCEPT !.mnemonic = mn,
                       !.operands = IF imm6 # 0
                                    THEN three \o <<","," ">> \o shift_name \o <<" ","#">> \o FmtU(imm6)
                                    ELSE three,
                       !.regs_read = @ \cup {rn, rm},
                       !.regs_written = @ \cup {rd},
                       !.flags_written = IF Bits(b, 20, 1) = 1 THEN 15 ELSE @,
                       !.category = "data-processing",
                       !.is_valid = TRUE]

\* lines 679-697: BFM / SBFM / UBFM
DecodeBitfield(z, b) ==
    LET is_64bit == Bits(b, 31, 1) = 1
        opc  == Bits(b, 29, 2)
        rd   == Bits(b, 0, 5)
        rn   == Bits(b, 5, 5)
        immr == Bits(b, 16, 6)
        imms == Bits(b, 10, 6)
    IN  [z EXCEPT !.mnemonic = IF opc = 0 /\ ~is_64bit THEN <<"B","F","M">>
                               ELSE IF opc = 1 /\ is_64bit THEN <<"S","B","F","M">>
                               ELSE IF opc = 2 /\ is_64bit THEN <<"U","B","F","M">> ELSE <<"B","F","M">>,
                  !.operands = arm64_register_name(rd, is_64bit) \o <<","," ">>
                               \o arm64_register_name(rn, is_64bit) \o <<","," ","#">>
                               \o FmtU(immr) \o <<","," ","#">> \o FmtU(imms),
                  !.category = "data-processing",
                  !.is_valid = TRUE]

\* lines 699-730: MADD / MSUB / SMULL / SMULH / MUL
DecodeThreeSource(z, b) ==
    LET is_64bit == Bits(b, 31, 1) = 1
        rd == Bits(b, 0, 5)
        rn == Bits(b, 5, 5)
        rm == Bits(b, 16, 5)
        ra == Bits(b, 10, 5)
        op == Bits(b, 21, 3)
        three == arm64_register_name(rd, is_64bit) \o <<","," ">>
                 \o arm64_register_name(rn, is_64bit) \o <<","," ">>
                 \o arm64_register_name(rm, is_64bit)
    IN  IF ra = 31 /\ op = 0
        THEN [z EXCEPT !.mnemonic = <<"M","U","L">>, !.operands = three,
                       !.category = "data-processing", !.is_valid = TRUE]
        ELSE [z EXCEPT !.mnemonic = IF op = 0 THEN <<"M","A","D","D">> ELSE IF op = 1 THEN <<"M","S","U","B">>
                                    ELSE IF op = 2 THEN <<"S","M","U","L","L">>
                                    ELSE IF op = 3 THEN <<"S","M","U","L","H">> ELSE <<"M","U","L">>,
                       !.operands = three \o <<","," ">> \o arm64_register_name(ra, is_64bit),
                       !.category = "data-processing", !.is_valid = TRUE]

\* lines 631-731: second (op0 & 0xE) == 0xA block
DecodeDataProcReg(z, b) ==
    IF Bits(b, 21, 8) >= 0 /\ Bits(b, 21, 8) <= 119 THEN DecodeLogical(z, b)
    ELSE IF Bits(b, 22, 10) >= 832 /\ Bits(b, 22, 10) <= 847 THEN DecodeBitfield(z, b)
    ELSE IF Bits(b, 21, 8) >= 27 /\ Bits(b, 21, 8) <= 31 THEN DecodeThreeSource(z, b)
    ELSE z

\* lines 733-764: CMP / CMN, immediate and shifted register
DecodeCompare(z, b) ==
    LET is_64bit == Bits(b, 31, 1) = 1
        rn     == Bits(b, 5, 5)
        top    == Bits(b, 24, 8)
        is_sub == Bits(b, 30, 1) = 1
    IN  IF top = 241 \/ top = 113
        THEN [z EXCEPT !.mnemonic = IF is_sub THEN <<"C","M","P">> ELSE <<"C","M","N">>,
                       !.operands = arm64_register_name(rn, is_64bit) \o <<","," ","#">>
                                    \o FmtU(Bits(b, 10, 12)),
                       !.category = "data-processing",
                       !.is_valid = TRUE,
                       !.regs_read = @ \cup {rn},
                       !.flags_written = 15]
        ELSE LET rm == Bits(b, 16, 5)
             IN  [z EXCEPT !.mnemonic = IF is_sub THEN <<"C","M","P">> ELSE <<"C","M","N">>,
                           !.operands = arm64_register_name(rn, is_64bit) \o <<","," ">>
                                        \o arm64_register_name(rm, is_64bit),
                           !.category = "data-processing",
                           !.is_valid = TRUE,
                           !.regs_read = @ \cup {rn, rm},
                           !.flags_written = 15]

\* lines 766-794: LSL / LSR / ASR / ROR
DecodeShift(z, b) ==
    LET is_64bit == Bits(b, 31, 1) = 1
        rd == Bits(b, 0, 5)
        rn == Bits(b, 5, 5)
        rm == Bits(b, 16, 5)
        shift_type == Bits(b, 22, 2)
        imm6 == Bits(b, 10, 6)
        shift_name == IF shift_type = 0 THEN <<"L","S","L">> ELSE IF shift_type = 1 THEN <<"L","S","R">>
                      ELSE IF shift_type = 2 THEN <<"A","S","R">> ELSE <<"R","O","R">>
        two == arm64_register_name(rd, is_64bit) \o <<","," ">>
               \o arm64_register_name(rn, is_64bit) \o <<","," ">>
    IN  [z EXCEPT !.mnemonic = shift_name,
                  !.operands = IF imm6 # 0 THEN two \o <<"#">> \o FmtU(imm6)
                               ELSE two \o arm64_register_name(rm, is_64bit),
                  !.category = "data-processing",
                  !.is_valid = TRUE]

\* lines 796-814: CCMP
DecodeCcmp(z, b) ==
    LET is_64bit == Bits(b, 31, 1) = 1
        rn   == Bits(b, 5, 5)
        rm   == Bits(b, 16, 5)
        nzcv == Bits(b, 0, 4)
        cond == Bits(b, 12, 4)
    IN  [z EXCEPT !.mnemonic = <<"C","C","M","P">>,
                  !.operands = arm64_register_name(rn, is_64bit) \o <<","," ">>
                               \o arm64_register_name(rm, is_64bit) \o <<","," ","#">>
                               \o FmtU(nzcv) \o <<","," ">> \o arm64_condition_string(cond),
                  !.category = "data-processing",
                  !.is_valid = TRUE,
                  !.regs_read = @ \cup {rn, rm},
                  !.flags_written = 15]

\* lines 816-821: NOP
DecodeNop(z) ==
    [z EXCEPT !.mnemonic = <<"N","O","P">>, !.operands = <<>>,
              !.category = "system", !.is_valid = TRUE]

\* lines 822-836: YIELD / WFE / WFI / SEV / SEVL / HINT
DecodeHint(z, b) ==
    LET crm == Bits(b, 8, 4)
        op2 == Bits(b, 5, 3)
    IN  [z EXCEPT !.mnemonic = IF crm = 0 /\ op2 = 1 THEN <<"Y","I","E","L","D">>
                               ELSE IF crm = 0 /\ op2 = 2 THEN <<"W","F","E">>
                               ELSE IF crm = 0 /\ op2 = 3 THEN <<"W","F","I">>
                               ELSE IF crm = 0 /\ op2 = 4 THEN <<"S","E","V">>
                               ELSE IF crm = 0 /\ op2 = 5 THEN <<"S","E","V","L">> ELSE <<"H","I","N","T">>,
                  !.operands = <<>>,
                  !.category = "system",
                  !.is_valid = TRUE]

\* lines 838-850: DSB / DMB / ISB
DecodeBarrier(z, b) ==
    LET crm == Bits(b, 8, 4)
        op2 == Bits(b, 5, 3)
    IN  [z EXCEPT !.mnemonic = IF op2 = 4 THEN <<"D","S","B">> ELSE IF op2 = 5 THEN <<"D","M","B">>
                               ELSE IF op2 = 6 THEN <<"I","S","B">> ELSE <<"B","A","R","R","I","E","R">>,
                  !.operands = <<"#">> \o FmtU(crm),
                  !.category = "system",
                  !.is_valid = TRUE]

\* lines 851-871: MRS / MSR
DecodeSysReg(z, b) ==
    LET is_read == Bits(b, 21, 1) = 1
        rt      == Bits(b, 0, 5)
        sysreg  == Bits(b, 5, 16)
        name    == <<"S">> \o FmtU((sysreg \div 16384) % 4) \o <<"_">>
                   \o FmtU((sysreg \div 2048) % 8) \o <<"_","c">>
                   \o FmtU((sysreg \div 128) % 16) \o <<"_","c">>
                   \o FmtU((sysreg \div 8) % 16) \o <<"_">> \o FmtU(sysreg % 8)
    IN  [z EXCEPT !.mnemonic = IF is_read THEN <<"M","R","S">> ELSE <<"M","S","R">>,
                  !.operands = IF is_read
                               THEN arm64_register_name(rt, TRUE) \o <<","," ">> \o name
                               ELSE name \o <<","," ">> \o arm64_register_name(rt, TRUE),
                  !.category = "system",
                  !.is_valid = TRUE]

\* x & m for small non-negative ints
RECURSIVE BitAnd(_, _)
BitAnd(x, m) == IF x = 0 \/ m = 0 THEN 0
                ELSE (x % 2) * (m % 2) + 2 * BitAnd(x \div 2, m \div 2)

\* op0 = (bytes >> 25) & 0xF
Op0(b) == Bits(b, 25, 4)

\* lines 323-871: the if / else-if cascade over the instruction families
DecodeCascade(z, b, a) ==
    LET op0 == Op0(b)
        adr == Bits(b, 31, 1) * 128 + Bits(b, 24, 5)   \* (bytes & 0x9F000000) >> 24
        top20 == b.hi * 16 + b.lo \div 4096           \* bytes >> 12
    IN  IF Bits(b, 26, 6) = 5 \/ Bits(b, 26, 6) = 37 THEN DecodeBranchImm(z, b, a)
        ELSE IF adr = 16 \/ adr = 144 THEN DecodeAdr(z, b, a)
        ELSE IF Bits(b, 21, 11) >= 1712 /\ Bits(b, 21, 11) <= 1715 THEN DecodeBranchReg(z, b, a)
        ELSE IF Bits(b, 22, 10) >= 656 /\ Bits(b, 22, 10) <= 703 THEN DecodePair(z, b, a)
        ELSE IF BitAnd(op0, 8) = 8 THEN DecodeOp0Bit3(z, b)
        ELSE IF BitAnd(op0, 14) = 10 THEN DecodeCondBranch(z, b, a)
        ELSE IF BitAnd(op0, 11) = 8 THEN DecodeLoadStore(z, b, a)
        ELSE IF BitAnd(op0, 14) = 10 THEN DecodeDataProcReg(z, b)
        ELSE IF Bits(b, 24, 8) \in {241, 113, 235, 107} THEN DecodeCompare(z, b)
        ELSE IF Bits(b, 21, 11) >= 1690 /\ Bits(b, 21, 11) <= 1695 THEN DecodeShift(z, b)
        ELSE IF Bits(b, 21, 11) >= 930 /\ Bits(b, 21, 11) <= 931 THEN DecodeCcmp(z, b)
        ELSE IF b.hi = 54531 /\ b.lo = 8223 THEN DecodeNop(z)
        ELSE IF top20 = 219165441 THEN DecodeHint(z, b)
        ELSE IF top20 = 219165449 THEN DecodeBarrier(z, b)
        ELSE IF ShiftR(b, 21) = 1697 THEN DecodeSysReg(z, b)
        ELSE z

\* lines 873-942: generic fallbacks by op0 for a word no family claimed;
\* the result carries returned = TRUE on the FMOV path, which returns at once
DecodeFallback(z, b) ==
    LET op0 == Op0(b)
        rd == Bits(b, 0, 5)
        rn == Bits(b, 5, 5)
        rm == Bits(b, 16, 5)
        is_64bit == Bits(b, 31, 1) = 1
    IN  IF BitAnd(op0, 11) = 8 \/ BitAnd(op0, 11) = 9
        THEN [returned |-> FALSE,
              inst |-> [z EXCEPT !.mnemonic = IF Bits(b, 22, 1) = 1 THEN <<"L","D","R">> ELSE <<"S","T","R">>,
                                 !.operands = arm64_register_name(rd, Bits(b, 30, 2) >= 2)
                                              \o <<","," ","[">> \o arm64_register_name(rn, TRUE)
                                              \o <<","," ",".",".",".","]">>,
                                 !.category = "load-store",
                                 !.is_valid = TRUE]]
        ELSE IF op0 = 11
        THEN [returned |-> FALSE,
              inst |-> [z EXCEPT !.mnemonic = <<"D","P","3","S","R","C">>,
                                 !.operands = arm64_register_name(rd, is_64bit) \o <<","," ">>
                                              \o arm64_register_name(rn, is_64bit) \o <<","," ">>
                                              \o arm64_register_name(rm, is_64bit) \o <<","," ",".",".",".">>,
                                 !.category = "data-processing",
                                 !.is_valid = TRUE]]
        ELSE IF BitAnd(op0, 7) = 7 \/ BitAnd(op0, 14) = 14
        THEN IF Bits(b, 21, 11) = 960
             THEN [returned |-> TRUE,
                   inst |-> [z EXCEPT !.mnemonic = <<"F","M","O","V">>,
                                      !.operands = <<"D">> \o FmtU(rd) \o <<","," ","D">> \o FmtU(rn),
                                      !.category = "SIMD",
                                      !.is_valid = TRUE]]
             ELSE [returned |-> FALSE,
                   inst |-> [z EXCEPT !.mnemonic = <<"S","I","M","D">>,
                                      !.operands = <<".",".",".">>,
                                      !.category = "SIMD",
                                      !.is_valid = TRUE]]
        ELSE IF BitAnd(op0, 14) = 10
        THEN [returned |-> FALSE,
              inst |-> [z EXCEPT !.mnemonic = <<"D","P","R","E","G">>,
                                 !.operands = arm64_register_name(rd, is_64bit) \o <<","," ">>
                                              \o arm64_register_name(rn, is_64bit) \o <<","," ",".",".",".">>,
                                 !.category = "data-processing",
                                 !.is_valid = TRUE]]
        ELSE IF op0 = 13
        THEN [returned |-> FALSE,
              inst |-> [z EXCEPT !.mnemonic = <<"S","Y","S">>,
                                 !.operands = <<".",".",".">>,
                                 !.category = "system",
                                 !.is_valid = TRUE]]
        ELSE [returned |-> FALSE, inst |-> z]

RECURSIVE TrimLeft(_)
TrimLeft(s) == IF Len(s) > 0 /\ s[1] \in {" ", "\t"} THEN TrimLeft(Tail(s)) ELSE s

RECURSIVE TrimRight(_)
TrimRight(s) == IF Len(s) > 0 /\ s[Len(s)] \in {" ", "\t"}
                THEN TrimRight(SubSeq(s, 1, Len(s) - 1)) ELSE s

\* the first n characters of s (all of s when it is shorter)
Take(s, n) == SubSeq(s, 1, IF Len(s) < n THEN Len(s) ELSE n)

\* strcspn(s, "\n\r"): length of the prefix holding no line terminator
RECURSIVE SpanToEol(_)
SpanToEol(s) == IF Len(s) = 0 \/ s[1] \in {"\n", "\r"} THEN 0 ELSE 1 + SpanToEol(Tail(s))

\* lines 944-986: rewrite "ORR rd, <SP|WSP|XZR|WZR>, rm" into "MOV rd, rm"
OrrToMov(i) ==
    IF ~(i.is_valid /\ i.mnemonic = <<"O","R","R">>) THEN i
    ELSE LET ops == i.operands
             first_comma == strchr(ops, ",", 1)
             second_comma == IF first_comma = 0 THEN 0 ELSE strchr(ops, ",", first_comma + 1)
         IN  IF first_comma = 0 \/ second_comma = 0 THEN i
             ELSE LET len == second_comma - (first_comma + 1)
                      mid == TrimRight(TrimLeft(SubSeq(ops, first_comma + 1, second_comma - 1)))
                  IN  IF len < 32 /\ mid \in {<<"S","P">>, <<"W","S","P">>, <<"X","Z","R">>, <<"W","Z","R">>}
                      THEN LET rd == Take(SubSeq(ops, 1, first_comma - 1), 15)
                               rm_src == TrimLeft(SubSeq(ops, second_comma + 1, Len(ops)))
                               rm == Take(SubSeq(rm_src, 1, SpanToEol(rm_src)), 15)
                           IN  [i EXCEPT !.mnemonic = <<"M","O","V">>,
                                         !.operands = rd \o <<","," ">> \o rm,
                                         !.category = "data-processing"]
                      ELSE i

\* variant: an unmatched word is left as the cascade left it
WordFallback_skipped(i, b) == i

\* lines 988-993: the ".word 0xXXXXXXXX" record of an unmatched word
WordFallback(i, b) ==
    IF i.is_valid THEN i
    ELSE [i EXCEPT !.mnemonic = <<".","w","o","r","d">>,
                   !.operands = <<"0","x">> \o Fmt08X(b),
                   !.category = "unknown",
                   !.is_valid = TRUE]

\* lines 995-999: full_disasm, then the function-boundary heuristics
Finish(c, i) ==
    LET f == [i EXCEPT !.full_disasm = <<"0","x">> \o FmtLLX(i.address) \o <<":"," ">>
                                       \o i.mnemonic \o <<" ">> \o i.operands]
        g == [f EXCEPT !.is_function_start = arm64_is_prologue(c, f)]
    IN  [g EXCEPT !.is_function_end = arm64_is_epilogue(c, g)]

\* variant: the record is not cleared before it is filled
ResetInst_nomemset(old, b, a) ==
    [old EXCEPT !.address = a, !.raw_bytes = b, !.length = 4, !.is_valid = FALSE]

\* lines 314-318: memset and the header fields
ResetInst(old, b, a) ==
    [ZeroInst EXCEPT !.address = a, !.raw_bytes = b, !.length = 4, !.is_valid = FALSE]

\* disasm_arm64(ctx, bytes, address, inst): the record left in *inst and the
\* value returned; old is the previous content of *inst
disasm_arm64(c, b, a, old) ==
    LET z == ResetInst(old, b, a)
        d == DecodeCascade(z, b, a)
        f == IF d.is_valid THEN [returned |-> FALSE, inst |-> d] ELSE DecodeFallback(d, b)
    IN  IF f.returned
        THEN [inst |-> f.inst, ret |-> f.inst.is_valid]
        ELSE LET r == Finish(c, WordFallback(OrrToMov(f.inst), b))
             IN  [inst |-> r, ret |-> r.is_valid]


(***************************************************************************)
(* ClassDumpC.c: the runtime-symbol scanner.  The mapped file is a sequence *)
(* of bytes (one-character strings, NUL, CR, LF); a name is a sequence of   *)
(* bytes and <<>> stands for both NULL and the empty string, which the      *)
(* scanner never stores.                                                    *)
(***************************************************************************)
NUL == "NUL"
CR == "CR"
LF == "LF"

SetMin(S) == CHOOSE x \in S : \A y \in S : x <= y

SetMax(S) == CHOOSE x \in S : \A y \in S : y <= x

\* the members of a set of offsets in increasing order
RECURSIVE Ascending(_)
Ascending(S) == IF S = {} THEN <<>> ELSE <<SetMin(S)>> \o Ascending(S \ {SetMin(S)})

\* the byte at offset off (from 0) of the memory image m; m is the mapped
\* file followed by whatever lies after the mapping, then zero bytes
ByteAt(m, off) == IF off < Len(m) THEN m[off + 1] ELSE NUL

\* strncmp(m + off, pattern, strlen(pattern)) == 0
PrefixAt(m, off, pattern) ==
    \A k \in 1..Len(pattern) : ByteAt(m, off + k - 1) = pattern[k]

\* binarySize - (name_start - binaryData) in size_t: wraps to a value larger
\* than the memory image when name_start lies after the end of the file
NameRemaining(m, size, off) == IF off <= size THEN size - off ELSE Len(m) + 1

class_dump_safe_strndup(m, off, max_len) ==
    LET stops == {j \in 0..(max_len - 1) : ByteAt(m, off + j) \in {NUL, LF, CR}}
        len   == IF stops = {} THEN max_len ELSE SetMin(stops)
    IN  SubSeq(m, off + 1, off + len)

\* index of the entry, 0 when absent
class_dump_find_class(res, class_name) ==
    LET hit == {i \in 1..Len(res.classes) : res.classes[i].className = class_name}
    IN  IF class_name = <<>> \/ hit = {} THEN 0 ELSE SetMin(hit)

class_dump_find_category(res, class_name, category_name) ==
    LET hit == {i \in 1..Len(res.categories) :
                   /\ res.categories[i].className = class_name
                   /\ res.categories[i].categoryName = category_name}
    IN  IF class_name = <<>> \/ category_name = <<>> \/ hit = {} THEN 0 ELSE SetMin(hit)

class_dump_find_protocol(res, protocol_name) ==
    LET hit == {i \in 1..Len(res.protocols) :
                   res.protocols[i].protocolName = protocol_name}
    IN  IF protocol_name = <<>> \/ hit = {} THEN 0 ELSE SetMin(hit)

\* appends to the list although the value is already in it
class_dump_add_unique_string_append(list, value) ==
    IF value = <<>> THEN list ELSE Append(list, value)

class_dump_add_unique_string(list, value) ==
    IF value = <<>> THEN list
    ELSE IF \E i \in 1..Len(list) : list[i] = value THEN list
    ELSE Append(list, value)

\* splits a category tail at its last "_$_"
class_dump_split_category_last(raw) ==
    LET seps == {i \in 1..(Len(raw) - 2) : SubSeq(raw, i, i + 2) = <<"_","$","_">>}
        sep  == SetMax(seps)
    IN  IF raw = <<>> THEN << <<>>, <<>> >>
        ELSE IF seps # {}
        THEN <<class_dump_safe_strndup(raw, 0, sep - 1),
               class_dump_safe_strndup(raw, sep + 2, Len(raw) - (sep + 2))>>
        ELSE << <<>>, raw >>

\* <<class_name, category_name>> of a category tail
class_dump_split_category(raw) ==
    LET sep == FindFrom(raw, <<"_","$","_">>, 1)
    IN  IF raw = <<>> THEN << <<>>, <<>> >>
        ELSE IF sep # 0
        THEN <<class_dump_safe_strndup(raw, 0, sep - 1),
               class_dump_safe_strndup(raw, sep + 2, Len(raw) - (sep + 2))>>
        ELSE << <<>>, raw >>

class_dump_is_swift_class(className) ==
    strstr(className, <<"_","T","t","C">>) \/ strstr(className, <<"_","T","t">>) \/ strstr(className, <<"S","w","i","f","t">>)

class_dump_is_meta_class(className) == strstr(className, <<"_","O","B","J","C","_","M","E","T","A","C","L","A","S","S","_","$","_">>)

add_class_to_result(res, className) ==
    IF className = <<>> \/ class_dump_find_class(res, className) # 0 THEN res
    ELSE [res EXCEPT !.classes = Append(@,
            [className |-> className, superclassName |-> <<"N","S","O","b","j","e","c","t">>,
             protocols |-> <<>>, properties |-> <<>>,
             ivars |-> <<>>, instanceMethods |-> <<>>, classMethods |-> <<>>,
             isSwift |-> class_dump_is_swift_class(className),
             isMetaClass |-> class_dump_is_meta_class(className)])]

NewCategory(class_name, category_name) ==
    [categoryName |-> category_name, className |-> class_name,
     protocols |-> <<>>, properties |-> <<>>,
     instanceMethods |-> <<>>, classMethods |-> <<>>]

add_category_to_result(res, categoryName) ==
    IF categoryName = <<>> THEN res
    ELSE IF \E i \in 1..Len(res.categories) :
                res.categories[i].categoryName = categoryName THEN res
    ELSE [res EXCEPT !.categories = Append(@, NewCategory(<<"N","S","O","b","j","e","c","t">>, categoryName))]

class_dump_add_category_with_class(res, class_name, category_name) ==
    IF class_name = <<>> \/ category_name = <<>> THEN res
    ELSE IF class_dump_find_category(res, class_name, category_name) # 0 THEN res
    ELSE [res EXCEPT !.categories = Append(@, NewCategory(class_name, category_name))]

add_protocol_to_result(res, protocolName) ==
    IF protocolName = <<>> \/ class_dump_find_protocol(res, protocolName) # 0 THEN res
    ELSE [res EXCEPT !.protocols = Append(@,
            [protocolName |-> protocolName, protocols |-> <<>>, methods |-> <<>>])]

class_dump_add_method_to_class(res, ci, method_name, is_class_method) ==
    IF is_class_method
    THEN [res EXCEPT !.classes[ci].classMethods =
              class_dump_add_unique_string(@, method_name)]
    ELSE [res EXCEPT !.classes[ci].instanceMethods =
              class_dump_add_unique_string(@, method_name)]

\* variant: the selector goes to the instance methods whatever the sign
class_dump_add_method_to_category_instance(res, ki, method_name, is_class_method) ==
    [res EXCEPT !.categories[ki].instanceMethods =
         class_dump_add_unique_string(@, method_name)]

class_dump_add_method_to_category(res, ki, method_name, is_class_method) ==
    IF is_class_method
    THEN [res EXCEPT !.categories[ki].classMethods =
              class_dump_add_unique_string(@, method_name)]
    ELSE [res EXCEPT !.categories[ki].instanceMethods =
              class_dump_add_unique_string(@, method_name)]

\* the offsets at which the loop
\*   while (remaining > bound) { pos = memchr(pos, first, remaining); ...; pos++; }
\* compares the pattern: every occurrence of its first byte in the file whose
\* iteration starts with more than bound bytes left
Visited(m, size, first, bound) ==
    LET cand == {q \in 0..(size - 1) : m[q + 1] = first}
        \* occurrences after which no more than bound bytes are left
        late == {r \in cand : size - (r + 1) <= bound}
    IN  {q \in cand : size > bound /\ \A r \in late : q <= r}

\* the tails that follow the matches of pattern, in file order
Tails(m, size, pattern) ==
    LET hits == Ascending({q \in Visited(m, size, pattern[1], Len(pattern)) :
                               PrefixAt(m, q, pattern)})
    IN  [i \in 1..Len(hits) |->
            class_dump_safe_strndup(m, hits[i] + Len(pattern),
                NameRemaining(m, size, hits[i] + Len(pattern)))]

RECURSIVE AddClasses(_, _)
AddClasses(res, names) ==
    IF names = <<>> THEN res
    ELSE AddClasses(add_class_to_result(res, Head(names)), Tail(names))

class_dump_analyze_classes(m, size, res) ==
    AddClasses(res, Tails(m, size, <<"_","O","B","J","C","_","C","L","A","S","S","_","$","_">>))

RECURSIVE AddCategories(_, _)
AddCategories(res, raws) ==
    IF raws = <<>> THEN res
    ELSE LET parts    == class_dump_split_category(Head(raws))
             resolved == IF parts[1] # <<>> THEN parts[1] ELSE <<"N","S","O","b","j","e","c","t">>
         IN  AddCategories(
                 IF parts[2] # <<>>
                 THEN class_dump_add_category_with_class(res, resolved, parts[2])
                 ELSE res,
                 Tail(raws))

class_dump_analyze_categories(m, size, res) ==
    AddCategories(res, Tails(m, size, <<"_","O","B","J","C","_","C","A","T","E","G","O","R","Y","_","$","_">>))

RECURSIVE AddProtocols(_, _)
AddProtocols(res, names) ==
    IF names = <<>> THEN res
    ELSE AddProtocols(add_protocol_to_result(res, Head(names)), Tail(names))

class_dump_analyze_protocols(m, size, res) ==
    AddProtocols(res, Tails(m, size, <<"_","O","B","J","C","_","P","R","O","T","O","C","O","L","_","$","_">>))

\* variant: an ivar of a class the result does not hold is dropped
AddIvar_known(res, full_name) ==
    LET dot        == strchr(full_name, ".", 1)
        class_name == SubSeq(full_name, 1, dot - 1)
        ivar_name  == SubSeq(full_name, dot + 1, Len(full_name))
        ci         == class_dump_find_class(res, class_name)
    IN  IF full_name = <<>> \/ dot = 0 \/ class_name = <<>> \/ ivar_name = <<>> \/ ci = 0
        THEN res
        ELSE [res EXCEPT !.classes[ci].ivars = class_dump_add_unique_string(@, ivar_name)]

\* one "<Class>.<ivar>" tail of the ivar scan
AddIvar(res, full_name) ==
    LET dot        == strchr(full_name, ".", 1)
        class_name == SubSeq(full_name, 1, dot - 1)
        ivar_name  == SubSeq(full_name, dot + 1, Len(full_name))
        r1         == add_class_to_result(res, class_name)
        ci         == class_dump_find_class(r1, class_name)
    IN  IF full_name = <<>> \/ dot = 0 \/ class_name = <<>> \/ ivar_name = <<>>
        THEN res
        ELSE [r1 EXCEPT !.classes[ci].ivars = class_dump_add_unique_string(@, ivar_name)]

RECURSIVE AddIvars(_, _)
AddIvars(res, names) ==
    IF names = <<>> THEN res
    ELSE AddIvars(AddIvar(res, Head(names)), Tail(names))

class_dump_scan_ivars(m, size, res) ==
    LET pattern == <<"_","O","B","J","C","_","I","V","A","R","_","$","_">>
        hits == Ascending({q \in Visited(m, size, pattern[1], Len(pattern)) :
                               size - q >= Len(pattern) /\ PrefixAt(m, q, pattern)})
    IN  AddIvars(res,
            [i \in 1..Len(hits) |->
                class_dump_safe_strndup(m, hits[i] + Len(pattern),
                    NameRemaining(m, size, hits[i] + Len(pattern)))])

\* the text between "-[" or "+[" at offset i and the first "]" within 200
\* bytes, cut at a NUL, CR or LF; <<>> when the hit is dropped
MethodContent(m, size, i) ==
    LET start     == i + 2
        remaining == size - start
        max_len   == IF remaining > 200 THEN 200 ELSE remaining
        ends      == {k \in 0..(max_len - 1) : ByteAt(m, start + k) = "]"}
        content_len == SetMin(ends)
    IN  IF ends = {} THEN <<>>
        ELSE IF content_len = 0 \/ content_len >= 200 THEN <<>>
        ELSE class_dump_safe_strndup(m, start, content_len)

\* one bracketed hit: content is "Class method" or "Class(Category) method"
AddMethod(res, content, is_class_method) ==
    LET space       == strchr(content, " ", 1)
        class_part  == SubSeq(content, 1, space - 1)
        method_part == SubSeq(content, space + 1, Len(content))
        open_paren  == strchr(class_part, "(", 1)
        close_paren == IF open_paren = 0 THEN 0 ELSE strchr(class_part, ")", open_paren)
        split       == open_paren # 0 /\ close_paren # 0 /\ close_paren > open_paren
        class_name  == IF split THEN SubSeq(class_part, 1, open_paren - 1) ELSE class_part
        category_name == IF split
                         THEN class_dump_safe_strndup(class_part, open_paren,
                                                      close_paren - open_paren - 1)
                         ELSE <<>>
        r1 == add_class_to_result(res, class_name)
        ci == class_dump_find_class(r1, class_name)
        r2 == class_dump_add_category_with_class(r1, class_name, category_name)
        ki == class_dump_find_category(r2, class_name, category_name)
    IN  IF content = <<>> \/ space = 0 \/ method_part = <<>> \/ class_name = <<>>
        THEN res
        ELSE IF category_name # <<>>
        THEN class_dump_add_method_to_category(r2, ki, method_part, is_class_method)
        ELSE class_dump_add_method_to_class(r1, ci, method_part, is_class_method)

RECURSIVE AddMethods(_, _, _, _)
AddMethods(m, size, res, hits) ==
    IF hits = <<>> THEN res
    ELSE AddMethods(m, size,
             AddMethod(res, MethodContent(m, size, Head(hits)), m[Head(hits) + 1] = "+"),
             Tail(hits))

class_dump_scan_methods(m, size, res) ==
    AddMethods(m, size, res,
        Ascending({i \in 0..(size - 3) : m[i + 1] \in {"-", "+"} /\ m[i + 2] = "["}))

\* the selectors of the fallback's allow-list
stringPatterns ==
    <<<<"i","n","i","t">>, <<"d","e","a","l","l","o","c">>, <<"a","l","l","o","c">>, <<"r","e","t","a","i","n">>, <<"r","e","l","e","a","s","e">>, <<"a","u","t","o","r","e","l","e","a","s","e">>,
      <<"c","o","p","y">>, <<"m","u","t","a","b","l","e","C","o","p","y">>, <<"d","e","s","c","r","i","p","t","i","o","n">>, <<"d","e","b","u","g","D","e","s","c","r","i","p","t","i","o","n">>>>

\* foundMethods > 0
FoundMethods(m, size) ==
    \E p \in 1..Len(stringPatterns) :
        \E q \in 0..(size - 1) :
            m[q + 1] = stringPatterns[p][1] /\ PrefixAt(m, q, stringPatterns[p])

analyze_strings_for_objc(m, size, res) ==
    IF FoundMethods(m, size)
    THEN add_protocol_to_result(
             add_category_to_result(
                 add_class_to_result(res, <<"S","a","m","p","l","e","C","l","a","s","s">>),
                 <<"S","a","m","p","l","e","C","a","t","e","g","o","r","y">>),
             <<"S","a","m","p","l","e","P","r","o","t","o","c","o","l">>)
    ELSE res

\* the insertion analyze_symbol_table_for_objc makes for a name after pattern
AddSymbol(res, pattern, name) ==
    IF name = <<>> THEN res
    ELSE IF strstr(pattern, <<"C","L","A","S","S">>) THEN add_class_to_result(res, name)
    ELSE IF strstr(pattern, <<"C","A","T","E","G","O","R","Y">>) THEN add_category_to_result(res, name)
    ELSE IF strstr(pattern, <<"P","R","O","T","O","C","O","L">>) THEN add_protocol_to_result(res, name)
    ELSE res

\* the scan of one pattern: hits are the offsets in the file where the
\* pattern matches, in file order, and pos is the scan position.  A hit below
\* pos lies in a name already consumed.  A match that runs over the end of
\* the file yields an empty name and inserts nothing.
RECURSIVE ScanSymbols(_, _, _, _, _, _)
ScanSymbols(m, size, res, pattern, hits, pos) ==
    LET q    == Head(hits)
        from == q + Len(pattern)
        stop == {j \in 0..254 : from + j >= size \/ ByteAt(m, from + j) \in {NUL, LF, CR}}
        len  == IF stop = {} THEN 255 ELSE SetMin(stop)
        name == SubSeq(m, from + 1, from + len)
    IN  IF hits = <<>> THEN res
        ELSE IF q < pos THEN ScanSymbols(m, size, res, pattern, Tail(hits), pos)
        ELSE ScanSymbols(m, size, AddSymbol(res, pattern, name), pattern,
                         Tail(hits), from + len + 1)

SymbolHits(m, size, pattern) ==
    Ascending({q \in 0..(size - 1) : m[q + 1] = pattern[1] /\ PrefixAt(m, q, pattern)})

ScanPattern(m, size, res, pattern) ==
    ScanSymbols(m, size, res, pattern, SymbolHits(m, size, pattern), 0)

analyze_symbol_table_for_objc(m, size, res) ==
    LET r1 == ScanPattern(m, size, res, <<"_","O","B","J","C","_","C","L","A","S","S","_","$","_">>)
        r2 == ScanPattern(m, size, r1, <<"_","O","B","J","C","_","C","A","T","E","G","O","R","Y","_","$","_">>)
        r3 == ScanPattern(m, size, r2, <<"_","O","B","J","C","_","P","R","O","T","O","C","O","L","_","$","_">>)
    IN  ScanPattern(m, size, r3, <<"_","O","B","J","C","_","M","E","T","A","C","L","A","S","S","_","$","_">>)

\* class_dump_binary's fresh result
EmptyResult == [classes |-> <<>>, categories |-> <<>>, protocols |-> <<>>]

\* variant: only the class vector is looked at
IsEmptyResult_classes(res) == res.classes = <<>>

IsEmptyResult(res) ==
    res.classes = <<>> /\ res.categories = <<>> /\ res.protocols = <<>>

\* the five passes in class_dump_binary's order, then the fallback when
\* nothing was found: [result, fallback] with fallback = the branch was taken
class_dump_binary(m, size) ==
    LET r1 == class_dump_analyze_classes(m, size, EmptyResult)
        r2 == class_dump_analyze_categories(m, size, r1)
        r3 == class_dump_analyze_protocols(m, size, r2)
        r4 == class_dump_scan_ivars(m, size, r3)
        r5 == class_dump_scan_methods(m, size, r4)
    IN  IF IsEmptyResult(r5)
        THEN [result |-> analyze_strings_for_objc(m, size, r5), fallback |-> TRUE]
        ELSE [result |-> r5, fallback |-> FALSE]

(***************************************************************************)
(* ClassDumpC.c: the insertions when realloc or strdup can return NULL.     *)
(* A name that strdup failed to copy is NULL, written <<>>.                 *)
(***************************************************************************)
\* what the allocator does in class_dump_add_unique_string: both calls
\* succeed; realloc returns NULL; realloc succeeds in place or moves the
\* array and strdup then returns NULL
StringAllocs == {"ok", "realloc_null", "strdup_null_in_place", "strdup_null_moved"}

\* [list, stale]: the list afterwards, and whether *list is left pointing at
\* the array realloc has freed (new_list is dropped by the return at line 112)
class_dump_add_unique_string_alloc(list, value, alloc) ==
    IF value = <<>> \/ \E i \in 1..Len(list) : list[i] = value
    THEN [list |-> list, stale |-> FALSE]
    ELSE IF alloc = "ok" THEN [list |-> Append(list, value), stale |-> FALSE]
    ELSE [list |-> list, stale |-> alloc = "strdup_null_moved"]

\* what the allocator does in an entity insertion: realloc, the strdup of
\* the first name, the strdup of the second name succeed (TRUE) or not
EntityAllocs == [realloc : BOOLEAN, first : BOOLEAN, second : BOOLEAN]

add_class_to_result_alloc(res, className, alloc) ==
    IF className = <<>> \/ class_dump_find_class(res, className) # 0 THEN res
    ELSE IF ~alloc.realloc THEN res
    ELSE [res EXCEPT !.classes = Append(@,
            [className |-> IF alloc.first THEN className ELSE <<>>,
             superclassName |-> IF alloc.second THEN <<"N","S","O","b","j","e","c","t">> ELSE <<>>,
             protocols |-> <<>>, properties |-> <<>>,
             ivars |-> <<>>, instanceMethods |-> <<>>, classMethods |-> <<>>,
             isSwift |-> class_dump_is_swift_class(className),
             isMetaClass |-> class_dump_is_meta_class(className)])]

class_dump_add_category_with_class_alloc(res, class_name, category_name, alloc) ==
    IF class_name = <<>> \/ category_name = <<>> THEN res
    ELSE IF class_dump_find_category(res, class_name, category_name) # 0 THEN res
    ELSE IF ~alloc.realloc THEN res
    ELSE [res EXCEPT !.categories = Append(@,
            NewCategory(IF alloc.second THEN class_name ELSE <<>>,
                        IF alloc.first THEN category_name ELSE <<>>))]

add_protocol_to_result_alloc(res, protocolName, alloc) ==
    IF protocolName = <<>> \/ class_dump_find_protocol(res, protocolName) # 0 THEN res
    ELSE IF ~alloc.realloc THEN res
    ELSE [res EXCEPT !.protocols = Append(@,
            [protocolName |-> IF alloc.first THEN protocolName ELSE <<>>,
             protocols |-> <<>>, methods |-> <<>>])]

(***************************************************************************)
(* ClassDumpC.c: the header emitter.  '\n' is the byte LF.                  *)
(***************************************************************************)
\* malloc(16384) of class_dump_generate_class_header
ClassHeaderCapacity == 16384

\* malloc(8192) of the category and protocol emitters
EntityHeaderCapacity == 8192

\* strcat of prefix, list[i], suffix for every entry of list, in order
RECURSIVE Lines(_, _, _)
Lines(prefix, list, suffix) ==
    IF list = <<>> THEN <<>>
    ELSE prefix \o Head(list) \o suffix \o Lines(prefix, Tail(list), suffix)

\* " <P1, P2>", nothing for an empty list
ProtocolList(list) ==
    IF list = <<>> THEN <<>>
    ELSE <<" ","<">> \o Head(list) \o Lines(<<","," ">>, Tail(list), <<>>) \o <<">">>

\* the text the strcpy / strcat calls of class_dump_generate_class_header build
class_dump_generate_class_header(classInfo) ==
    <<"@","i","n","t","e","r","f","a","c","e"," ">> \o classInfo.className
    \o (IF classInfo.superclassName # <<>>
        THEN <<" ",":"," ">> \o classInfo.superclassName ELSE <<>>)
    \o ProtocolList(classInfo.protocols) \o <<LF>>
    \o Lines(<<"@","p","r","o","p","e","r","t","y"," ","(","n","o","n","a","t","o","m","i","c",","," ","s","t","r","o","n","g",")"," ","i","d"," ">>, classInfo.properties, <<";", LF>>)
    \o (IF classInfo.ivars # <<>>
        THEN <<"{", LF>> \o Lines(<<" "," "," "," ","i","d"," ">>, classInfo.ivars, <<";", LF>>) \o <<"}", LF>>
        ELSE <<>>)
    \o Lines(<<"-"," ","(","v","o","i","d",")">>, classInfo.instanceMethods, <<";", LF>>)
    \o Lines(<<"+"," ","(","v","o","i","d",")">>, classInfo.classMethods, <<";", LF>>)
    \o <<"@","e","n","d">> \o <<LF, LF>>

class_dump_generate_category_header(categoryInfo) ==
    <<"@","i","n","t","e","r","f","a","c","e"," ">> \o categoryInfo.className
    \o <<" ","(">> \o categoryInfo.categoryName \o <<")", LF>>
    \o Lines(<<"@","p","r","o","p","e","r","t","y"," ","(","n","o","n","a","t","o","m","i","c",","," ","s","t","r","o","n","g",")"," ","i","d"," ">>, categoryInfo.properties, <<";", LF>>)
    \o Lines(<<"-"," ","(","v","o","i","d",")">>, categoryInfo.instanceMethods, <<";", LF>>)
    \o Lines(<<"+"," ","(","v","o","i","d",")">>, categoryInfo.classMethods, <<";", LF>>)
    \o <<"@","e","n","d">> \o <<LF, LF>>

class_dump_generate_protocol_header(protocolInfo) ==
    <<"@","p","r","o","t","o","c","o","l"," ">> \o protocolInfo.protocolName
    \o ProtocolList(protocolInfo.protocols) \o <<LF>>
    \o Lines(<<"-"," ","(","v","o","i","d",")">>, protocolInfo.methods, <<";", LF>>)
    \o <<"@","e","n","d">> \o <<LF, LF>>

\* no emitter was called
NoHeader == [kind |-> "none", ret |-> <<>>, overrun |-> FALSE]

\* what a call that builds text in a buffer of capacity bytes can do: return
\* the text when it fits with its terminator; otherwise strcat writes past
\* the end of the allocation, and the call either still returns the text,
\* with the heap written over, or does not return (ret is <<>>)
Emitted(kind, text, capacity) ==
    IF Len(text) + 1 <= capacity
    THEN {[kind |-> kind, ret |-> text, overrun |-> FALSE]}
    ELSE {[kind |-> kind, ret |-> text, overrun |-> TRUE],
          [kind |-> kind, ret |-> <<>>, overrun |-> TRUE]}

(***************************************************************************)
(* Decoder inputs                                                           *)
(***************************************************************************)
\* bits 20:0 of the probed words, as <<bits 20:16, bits 15:0>>: register and
\* immediate fields all clear, all set, and mixed
LowProbes == << <<0, 0>>, <<31, 65535>>, <<16, 1085>>, <<3, 960>>, <<1, 33792>>, <<8, 2>> >>

\* addresses: 0x1000 (S1, S2), 0x2000 (S4), 0xFFFFFFFFFFFFF004 (not page
\* aligned, wraps on a forward branch), 0x1004, 0
AddrProbes == << <<4096, 0, 0, 0>>, <<8192, 0, 0, 0>>, <<61444, 65535, 65535, 65535>>,
                 <<4100, 0, 0, 0>>, <<0, 0, 0, 0>> >>

NumLow == 3
NumAddr == 3

Prefix(list, n) == {list[i] : i \in 1..(IF n < Len(list) THEN n ELSE Len(list))}

\* every value of bits 31:21, so that every branch of the cascade is chosen
BroadWords == {U32(top * 32 + low[1], low[2]) : top \in 0..2047,
                                               low \in Prefix(LowProbes, NumLow)}

\* a load/store-pair word from its fields
PairWord(top10, imm7, rt2, rn, rt) ==
    U32(top10 * 64 + imm7 \div 2, (imm7 % 2) * 32768 + rt2 * 1024 + rn * 32 + rt)

\* the pair family (bits 31:22 in 0x290..0x2BF) with frame-record registers
PairWords == {PairWord(top10, imm7, r[2], rn, r[1]) :
                 top10 \in 656..703, imm7 \in {0, 1, 64, 126},
                 r \in {<<29, 30>>, <<30, 29>>, <<29, 29>>, <<0, 30>>},
                 rn \in {31, 29}}

W_B       == U32(5120, 2)        \* 0x14000002  B  +8
W_BL      == U32(37888, 3)       \* 0x94000003  BL +12
W_RET     == U32(54879, 960)     \* 0xD65F03C0  RET
W_STP     == U32(43455, 31741)   \* 0xA9BF7BFD  STP X29, X30, [SP, #-16]!
W_NOP     == U32(54531, 8223)    \* 0xD503201F  NOP
W_ADRP    == U32(36864, 32)      \* 0x90000020  ADRP X0, +0x4000
W_CMP_IMM == U32(61696, 1087)    \* 0xF100043F  CMP X1, #1
W_CMP_REG == U32(60162, 63)      \* 0xEB02003F  CMP X1, X2
W_CCMP    == U32(29762, 32)      \* 0x74420020  bits 31:21 = 0x3A2
W_BLR     == U32(54847, 512)     \* 0xD63F0200  BLR X16
W_ORR     == U32(43521, 992)     \* 0xAA0103E0  ORR X0, XZR, X1
W_ORR_W   == U32(10753, 992)     \* 0x2A0103E0  ORR W0, WZR, W1
W_BCOND   == U32(21504, 64)      \* 0x54000040  B.EQ +8
W_LDR     == U32(63808, 1056)    \* 0xF9400420  LDR X0, [X1, #8]
W_ADR_NEG == U32(4351, 65504)    \* 0x10FFFFE0  ADR X0, -4

ScenarioWords == {W_B, W_BL, W_RET, W_STP, W_NOP, W_ADRP, W_CMP_IMM, W_CMP_REG,
                  W_CCMP, W_BLR, W_ORR, W_ORR_W, W_BCOND, W_LDR, W_ADR_NEG}

Words == BroadWords \cup PairWords \cup ScenarioWords

Addresses == Prefix(AddrProbes, NumAddr)

Flags == {DISASM_FLAG_PROLOGUE_EPILOGUE_HEURISTICS}

NoCall == [null |-> TRUE, flags |-> {}]

\* memo before the first remembered call
NoMemo == [set |-> FALSE, key |-> <<NoCall, W_BL, Zero64>>, inst |-> ZeroInst,
           last |-> <<NoCall, W_BL, Zero64>>, other |-> FALSE, calls |-> 0]

(***************************************************************************)
(* Scanner inputs                                                           *)
(***************************************************************************)
\* n bytes "a"
Sel(n) == [i \in 1..n |-> "a"]

\* class names: S6's, one that ends with the first two bytes of the category
\* separator, a one-byte name, the default superclass
ClassProbes == <<<<"F","o","o">>, <<"A","_","$">>, <<"A">>, <<"N","S","O","b","j","e","c","t">>>>

\* selectors: S6's, the longest that fits the 200-byte window after a
\* one-byte class name, one byte more, a selector of the fallback's list
SelectorProbes == <<<<"t","i","c","k">>, Sel(197), Sel(198), <<"i","n","i","t">>>>

NumClassNames == 3
NumSelectors == 3

CategoryNames == {<<"B","a","r">>, <<"$","_","K">>}

IvarNames == {<<"c","o","u","n","t","e","r">>}

\* the orders of the four strings in the file
Orders == {p \in [1..4 -> 1..4] : \A i, j \in 1..4 : p[i] = p[j] => i = j}

\* bytes in front of the four strings
Leads == {<<>>, <<"M", "Z", NUL, LF>>}

Scenarios ==
    [C : Prefix(ClassProbes, NumClassNames), K : CategoryNames, v : IvarNames,
     m : Prefix(SelectorProbes, NumSelectors), order : Orders, lead : Leads]

NoScenario ==
    [C |-> <<>>, K |-> <<>>, v |-> <<>>, m |-> <<>>, order |-> <<>>, lead |-> <<>>]

\* the k-th of the four NUL-terminated strings of S6 for the names of s
Piece(s, k) ==
    CASE k = 1 -> <<"_","O","B","J","C","_","C","L","A","S","S","_","$","_">> \o s.C \o <<NUL>>
      [] k = 2 -> <<"_","O","B","J","C","_","C","A","T","E","G","O","R","Y","_","$","_">> \o s.C \o <<"_","$","_">> \o s.K \o <<NUL>>
      [] k = 3 -> <<"_","O","B","J","C","_","I","V","A","R","_","$","_">> \o s.C \o <<".">> \o s.v \o <<NUL>>
      [] OTHER -> <<"-","[">> \o s.C \o <<" ">> \o s.m \o <<"]">> \o <<NUL>>

S6Binary(s) ==
    s.lead \o Piece(s, s.order[1]) \o Piece(s, s.order[2])
           \o Piece(s, s.order[3]) \o Piece(s, s.order[4])

\* every pattern twice and in both spellings
DupBinary ==
    <<"_","O","B","J","C","_","C","L","A","S","S","_","$","_","F","o","o">> \o <<NUL>> \o <<"_","O","B","J","C","_","C","A","T","E","G","O","R","Y","_","$","_","F","o","o","_","$","_","B","a","r">> \o <<NUL>>
    \o <<"-","[","F","o","o"," ","t","i","c","k","]">> \o <<NUL>> \o <<"_","O","B","J","C","_","I","V","A","R","_","$","_","F","o","o",".","c","o","u","n","t","e","r">> \o <<LF>>
    \o <<"_","O","B","J","C","_","P","R","O","T","O","C","O","L","_","$","_","N","S","C","o","p","y","i","n","g">> \o <<NUL>> \o <<"-","[","F","o","o","(","B","a","r",")"," ","t","i","c","k","]","+","[","F","o","o"," ","t","i","c","k","]">>
    \o <<"_","O","B","J","C","_","C","A","T","E","G","O","R","Y","_","$","_","B","a","r">> \o <<CR>> \o <<"_","O","B","J","C","_","I","V","A","R","_","$","_","F","o","o",".","c","o","u","n","t","e","r">> \o <<NUL>>
    \o <<"_","O","B","J","C","_","C","L","A","S","S","_","$","_","F","o","o">> \o <<NUL>> \o <<"-","[","F","o","o"," ","t","i","c","k","]","-","[","F","o","o","(","B","a","r",")"," ","t","i","c","k","]">>
    \o <<"_","O","B","J","C","_","P","R","O","T","O","C","O","L","_","$","_","N","S","C","o","p","y","i","n","g">> \o <<NUL>> \o <<"_","O","B","J","C","_","C","A","T","E","G","O","R","Y","_","$","_","F","o","o","_","$","_","B","a","r">> \o <<NUL>>
    \o <<"_","O","B","J","C","_","M","E","T","A","C","L","A","S","S","_","$","_","F","o","o">> \o <<NUL>>

\* memory images [binary, beyond]: every pattern twice; a class prefix cut by
\* the end of the file and completed by what lies after the mapping; a
\* selector of the fallback's list cut by the end of the file; a protocol and
\* a selector; selectors only; neither pattern nor selector; the cut files
\* with nothing after the mapping
ImageProbes ==
    <<[binary |-> DupBinary, beyond |-> <<>>],
      [binary |-> <<"-","[","Z","e","d"," ","r","u","n","]","x","x","_","O","B","J","C","_","C","L","A","S","S","_","$">>, beyond |-> <<"_","F","o","o">>],
      [binary |-> <<NUL>> \o <<"i","n","i">>, beyond |-> <<"t">>],
      [binary |-> <<"_","O","B","J","C","_","P","R","O","T","O","C","O","L","_","$","_","N","S","C","o","p","y","i","n","g">> \o <<NUL>> \o <<"i","n","i","t">>, beyond |-> <<>>],
      [binary |-> <<"i","n","i","t">> \o <<NUL>> \o <<"d","e","a","l","l","o","c">>, beyond |-> <<>>],
      [binary |-> <<"M","Z">> \o <<NUL, LF>> \o <<"t","e","x","t">>, beyond |-> <<>>],
      [binary |-> <<"-","[","Z","e","d"," ","r","u","n","]","x","x","_","O","B","J","C","_","C","L","A","S","S","_","$">>, beyond |-> <<>>],
      [binary |-> <<NUL>> \o <<"i","n","i">>, beyond |-> <<>>]>>

NumImages == 6

\* what lies after the mapping of an S6 file
Beyonds == {<<>>, <<"t">>}

\* arguments of the add operations: names the scans record too, and a new one
ClassArgs == {<<"F","o","o">>, <<"Z","e","d">>}

CategoryArgs == {<<"B","a","r">>}

CategoryPairs == {<<<<"F","o","o">>, <<"B","a","r">>>>, <<<<"N","S","O","b","j","e","c","t">>, <<"B","a","r">>>>}

ProtocolArgs == {<<"N","S","C","o","p","y","i","n","g">>}

\* files with one name too long for the emitters' buffers: a category on a
\* class of 8200 bytes
LongFiles ==
    {<<"_","O","B","J","C","_","C","A","T","E","G","O","R","Y","_","$","_">> \o Sel(8200) \o <<"_","$","_","K">> \o <<NUL>>}

\* the scanner is not in use
ScanIdle ==
    /\ binary = <<>>
    /\ beyond = <<>>
    /\ result = EmptyResult
    /\ phase = "idle"
    /\ scenario = NoScenario
    /\ header = NoHeader
    /\ stale = {}

(***************************************************************************)
(* Decoder state machine                                                    *)
(***************************************************************************)
\* disasm_create: flags = DISASM_FLAG_PROLOGUE_EPILOGUE_HEURISTICS
Init ==
    /\ ctx = [flags |-> {DISASM_FLAG_PROLOGUE_EPILOGUE_HEURISTICS}]
    /\ bytes \in Words
    /\ address \in Addresses
    /\ ctxarg = NoCall
    /\ inst = ZeroInst
    /\ ret = "none"
    /\ memo = NoMemo
    /\ ScanIdle

disasm_set_flags ==
    \E f \in SUBSET Flags :
        /\ ctx' = [ctx EXCEPT !.flags = f]
        /\ UNCHANGED <<bytes, address, ctxarg, inst, ret, memo>>
        /\ UNCHANGED scanvars

disasm_enable_flag ==
    \E f \in Flags :
        /\ ctx' = [ctx EXCEPT !.flags = @ \cup {f}]
        /\ UNCHANGED <<bytes, address, ctxarg, inst, ret, memo>>
        /\ UNCHANGED scanvars

disasm_disable_flag ==
    \E f \in Flags :
        /\ ctx' = [ctx EXCEPT !.flags = @ \ {f}]
        /\ UNCHANGED <<bytes, address, ctxarg, inst, ret, memo>>
        /\ UNCHANGED scanvars

\* the context argument: NULL, or ctx with its current flags
CtxArg(null) == [null |-> null, flags |-> IF null THEN {} ELSE ctx.flags]

\* a call disasm_arm64(ctx or NULL, bytes, address, &inst)
DisasmCall(null) ==
    LET r == disasm_arm64(CtxArg(null), bytes, address, inst)
    IN  /\ inst' = r.inst
        /\ ret' = IF r.ret THEN "true" ELSE "false"
        /\ ctxarg' = CtxArg(null)
        /\ UNCHANGED <<ctx, bytes, address>>
        /\ UNCHANGED scanvars

Disasm ==
    \E null \in BOOLEAN : DisasmCall(null) /\ UNCHANGED memo

Next == disasm_set_flags \/ disasm_enable_flag \/ disasm_disable_flag \/ Disasm

Spec == Init /\ [][Next]_vars

TypeOK == ret \in {"none", "true", "false"}

(***************************************************************************)
(* Properties of the decoder                                                *)
(***************************************************************************)
\* disasm_arm64 has been called and inst holds its result
Called == ret # "none"

\* value of a string of upper-case hex digits, -1 when a character is no digit
RECURSIVE HexValue(_)
HexValue(s) ==
    IF Len(s) = 0 THEN 0
    ELSE LET d == {i \in 0..15 : UpperHex[i + 1] = s[Len(s)]}
             r == HexValue(SubSeq(s, 1, Len(s) - 1))
         IN  IF d = {} \/ r < 0 THEN -1 ELSE 16 * r + (CHOOSE i \in d : TRUE)

\* the word lies in no family: word bit 28 clear, bits 27:25 not all set, not a
\* load/store pair (bits 31:22 in 0x290..0x2BF), not a register compare
Unmatched(b) ==
    /\ Bits(b, 28, 1) = 0
    /\ Bits(b, 25, 3) # 7
    /\ ~(Bits(b, 22, 10) >= 656 /\ Bits(b, 22, 10) <= 703)
    /\ Bits(b, 24, 8) \notin {235, 107}

IsWordRecord(i, b) ==
    /\ i.mnemonic = <<".","w","o","r","d">>
    /\ Len(i.operands) = 10
    /\ SubSeq(i.operands, 1, 2) = <<"0","x">>
    /\ HexValue(SubSeq(i.operands, 3, 6)) = b.hi
    /\ HexValue(SubSeq(i.operands, 7, 10)) = b.lo
    /\ i.category = "unknown"

\* C1: for every word, address and context (flag on, flag off, NULL) the call
\* returns true and leaves is_valid = true, a non-empty mnemonic and length 4;
\* a word of no family gives ".word", the word as 8 hex digits, category unknown.
Thm_C1 ==
    Called =>
        /\ ret = "true"
        /\ inst.is_valid
        /\ Len(inst.mnemonic) > 0
        /\ inst.length = 4
        /\ (Unmatched(bytes) => IsWordRecord(inst, bytes))
        /\ (inst.mnemonic = <<".","w","o","r","d">> => Unmatched(bytes))

Witness_C1 ==
    /\ Called
    /\ Unmatched(bytes)
    /\ ctxarg.null
    /\ inst.mnemonic = <<".","w","o","r","d">>
    /\ inst.operands = <<"0","x","0","0","1","F","F","F","F","F">>

\* C2: whenever has_branch_target is set and branch_offset is not 0,
\* branch_target = address + branch_offset modulo 2^64 (B/BL and ADR/ADRP,
\* page aligned address or not).
Claim_C2 ==
    (Called /\ inst.has_branch_target /\ inst.branch_offset # Zero64)
        => inst.branch_target = Add64(address, inst.branch_offset)

IsBL(b)  == Bits(b, 26, 6) = 37
IsBLR(b) == Bits(b, 21, 11) = 1713
IsRET(b) == Bits(b, 21, 11) = 1714

\* C3: every BL and BLR word sets bit 30 of regs_written and branch_type = call;
\* every RET word gives branch_type = return and is_function_end = true, with
\* the heuristics flag on, off, or a NULL context.
Thm_C3 ==
    Called =>
        /\ (IsBL(bytes) \/ IsBLR(bytes)
               => 30 \in inst.regs_written /\ inst.branch_type = "call")
        /\ (IsRET(bytes)
               => inst.branch_type = "return" /\ inst.is_function_end)

Witness_C3 ==
    /\ Called
    /\ bytes = W_RET
    /\ ctxarg.null
    /\ inst.mnemonic = <<"R","E","T">>
    /\ inst.is_function_end

\* C5: every CMP/CMN immediate word (top byte 0xF1, 0x71), CMP/CMN shifted
\* register word (top byte 0xEB, 0x6B) and CCMP word (bits 31:21 in
\* 0x3A2..0x3A3) decodes to CMP, CMN or CCMP with flags_written = 0xF and the
\* compared registers in regs_read.
Claim_C5 ==
    Called =>
        /\ (Bits(bytes, 24, 8) \in {241, 113}
               => /\ inst.mnemonic \in {<<"C","M","P">>, <<"C","M","N">>}
                  /\ inst.flags_written = 15
                  /\ Bits(bytes, 5, 5) \in inst.regs_read)
        /\ (Bits(bytes, 24, 8) \in {235, 107}
               => /\ inst.mnemonic \in {<<"C","M","P">>, <<"C","M","N">>}
                  /\ inst.flags_written = 15
                  /\ {Bits(bytes, 5, 5), Bits(bytes, 16, 5)} \subseteq inst.regs_read)
        /\ (Bits(bytes, 21, 11) \in {930, 931}
               => /\ inst.mnemonic = <<"C","C","M","P">>
                  /\ inst.flags_written = 15
                  /\ {Bits(bytes, 5, 5), Bits(bytes, 16, 5)} \subseteq inst.regs_read)

\* the signed value of imm26 (bits 25:0), by modular arithmetic
SImm26(b) == ((Bits(b, 0, 26) + Pow2(25)) % Pow2(26)) - Pow2(25)

\* off is the two's complement int64_t of the int v
IsInt64Of(off, v) ==
    IF v >= 0 THEN off = <<v % L16, v \div L16, 0, 0>>
    ELSE Add64(off, <<(-v) % L16, (-v) \div L16, 0, 0>>) = Zero64

\* C7: for every B (top six bits 000101) and BL (100101) word and address:
\* branch_offset = sign-extended imm26 * 4, branch_target = address + offset,
\* has_branch = has_branch_target = updates_pc = true, category branch,
\* branch_type unconditional for B and call for BL; 0x14000002 at 0x1000 is
\* B to 0x1008 and 0x94000003 at 0x1000 is BL to 0x100C.
Thm_C7 ==
    (Called /\ Bits(bytes, 26, 6) \in {5, 37}) =>
        /\ IsInt64Of(inst.branch_offset, 4 * SImm26(bytes))
        /\ inst.branch_target = Add64(address, inst.branch_offset)
        /\ inst.has_branch /\ inst.has_branch_target /\ inst.updates_pc
        /\ inst.category = "branch"
        /\ inst.branch_type = (IF Bits(bytes, 31, 1) = 1 THEN "call" ELSE "unconditional")
        /\ inst.mnemonic = (IF Bits(bytes, 31, 1) = 1 THEN <<"B","L">> ELSE <<"B">>)
        /\ (bytes = W_B /\ address = <<4096, 0, 0, 0>>
               => inst.branch_target = <<4104, 0, 0, 0>> /\ inst.operands = <<"0","x","1","0","0","8">>)
        /\ (bytes = W_BL /\ address = <<4096, 0, 0, 0>>
               => inst.branch_target = <<4108, 0, 0, 0>> /\ inst.operands = <<"0","x","1","0","0","c">>)

Witness_C7 ==
    /\ Called
    /\ bytes = W_BL
    /\ address = <<4096, 0, 0, 0>>
    /\ inst.mnemonic = <<"B","L">>
    /\ inst.branch_target = <<4108, 0, 0, 0>>

\* C8: 0xD503201F decodes at any address to mnemonic NOP, empty operands,
\* category system, has_branch = false and branch_type = none.
Claim_C8 ==
    (Called /\ bytes = W_NOP) =>
        /\ inst.mnemonic = <<"N","O","P">>
        /\ inst.operands = <<>>
        /\ inst.category = "system"
        /\ ~inst.has_branch
        /\ inst.branch_type = "none"

\* STP (64-bit, pre-indexed: bits 31:22 = 0x2A6) of X29 and X30 with base SP
\* and a negative imm7
IsFramePush(b) ==
    /\ Bits(b, 22, 10) = 678
    /\ Bits(b, 5, 5) = 31
    /\ {Bits(b, 0, 5), Bits(b, 10, 5)} = {29, 30}
    /\ Bits(b, 21, 1) = 1

\* C9: with the heuristics flag on, every pre-indexed STP of X29 and X30 with
\* base SP and a negative scaled immediate decodes with is_function_start = true.
Thm_C9 ==
    (/\ Called
     /\ ~ctxarg.null
     /\ DISASM_FLAG_PROLOGUE_EPILOGUE_HEURISTICS \in ctxarg.flags
     /\ IsFramePush(bytes))
        => inst.is_function_start

Witness_C9 ==
    /\ Called
    /\ bytes = W_STP
    /\ address = <<8192, 0, 0, 0>>
    /\ ~ctxarg.null
    /\ DISASM_FLAG_PROLOGUE_EPILOGUE_HEURISTICS \in ctxarg.flags
    /\ inst.operands = <<"X","2","9",","," ","X","3","0",","," ","[","S","P",","," ","#","-","1","6","]","!">>
    /\ inst.is_function_start

(***************************************************************************)
(* Repeated decoding: the driver fetches words and decodes them into the    *)
(* same record; memo remembers the first call and its result                *)
(***************************************************************************)
MaxCalls == 3

DetWords == {W_BL, W_RET, W_STP, W_CMP_REG, U32(31, 65535)}

DetAddresses == Prefix(AddrProbes, 2)

\* a record whose every field holds a leftover of some earlier use
StaleInst ==
    [address |-> <<1, 2, 3, 4>>, raw_bytes |-> U32(65535, 65535), length |-> 7,
     mnemonic |-> <<"L","D","P">>, operands |-> <<"X","2","9",","," ","X","3","0",","," ","[","S","P",","," ","#","-","1","6","]","!">>,
     full_disasm |-> <<"s","t","a","l","e">>,
     category |-> "SIMD", has_branch |-> TRUE, branch_type |-> "conditional",
     has_branch_target |-> TRUE, branch_target |-> <<9, 9, 9, 9>>,
     branch_offset |-> <<8, 8, 8, 8>>, updates_pc |-> TRUE,
     regs_read |-> {5}, regs_written |-> {6}, flags_written |-> 15,
     is_function_start |-> TRUE, is_function_end |-> TRUE,
     is_valid |-> TRUE]

InitDet ==
    /\ ctx = [flags |-> {DISASM_FLAG_PROLOGUE_EPILOGUE_HEURISTICS}]
    /\ bytes \in DetWords
    /\ address \in DetAddresses
    /\ ctxarg = NoCall
    /\ inst \in {ZeroInst, StaleInst}
    /\ ret = "none"
    /\ memo = NoMemo
    /\ ScanIdle

\* disasm_instruction reads another word of the code buffer
Fetch ==
    /\ bytes' \in DetWords
    /\ address' \in DetAddresses
    /\ UNCHANGED <<ctx, ctxarg, inst, ret, memo>>
    /\ UNCHANGED scanvars

\* a call of disasm_arm64 whose arguments and result are remembered
DisasmRecorded ==
    /\ memo.calls < MaxCalls
    /\ \E null \in BOOLEAN :
        /\ DisasmCall(null)
        /\ LET c == CtxArg(null)
               k == <<c, bytes, address>>
           IN  memo' = [set   |-> TRUE,
                        key   |-> IF memo.set THEN memo.key ELSE k,
                        inst  |-> IF memo.set THEN memo.inst ELSE inst',
                        last  |-> k,
                        other |-> memo.other \/ (memo.set /\ k # memo.key),
                        calls |-> memo.calls + 1]

NextDet == disasm_set_flags \/ disasm_enable_flag \/ disasm_disable_flag
           \/ Fetch \/ DisasmRecorded

SpecDet == InitDet /\ [][NextDet]_vars

\* C6: two calls with the same word, address and context flags leave records
\* equal in every field, whatever the record held before and whatever was
\* decoded in between; a call changes nothing but the record (ctx unchanged).
Thm_C6 ==
    /\ []((memo.set /\ memo.last = memo.key) => inst = memo.inst)
    /\ [][memo'.calls # memo.calls => ctx' = ctx /\ bytes' = bytes /\ address' = address]_vars

Witness_C6 ==
    /\ memo.calls = 3
    /\ memo.other
    /\ memo.last = memo.key
    /\ memo.key[2] = W_STP
    /\ inst = memo.inst
    /\ inst.is_function_start

(***************************************************************************)
(* Scanner state machine: passes and add operations on one result           *)
(***************************************************************************)
\* the decoder is not in use
DecoderIdle ==
    /\ ctx = [flags |-> {DISASM_FLAG_PROLOGUE_EPILOGUE_HEURISTICS}]
    /\ bytes = W_BL
    /\ address = Zero64
    /\ ctxarg = NoCall
    /\ inst = ZeroInst
    /\ ret = "none"
    /\ memo = NoMemo

\* the mapped file followed by what lies after the mapping
Mem == binary \o beyond

Size == Len(binary)

InitScan ==
    /\ DecoderIdle
    /\ \E image \in Prefix(ImageProbes, NumImages) :
          binary = image.binary /\ beyond = image.beyond
    /\ result = EmptyResult
    /\ phase = "idle"
    /\ scenario = NoScenario
    /\ header = NoHeader
    /\ stale = {}

Keep == UNCHANGED <<decvars, binary, beyond, phase, scenario, header, stale>>

AnalyzeClasses == result' = class_dump_analyze_classes(Mem, Size, result) /\ Keep

AnalyzeCategories == result' = class_dump_analyze_categories(Mem, Size, result) /\ Keep

AnalyzeProtocols == result' = class_dump_analyze_protocols(Mem, Size, result) /\ Keep

ScanIvars == result' = class_dump_scan_ivars(Mem, Size, result) /\ Keep

ScanMethods == result' = class_dump_scan_methods(Mem, Size, result) /\ Keep

AnalyzeStrings == result' = analyze_strings_for_objc(Mem, Size, result) /\ Keep

AnalyzeSymbolTable == result' = analyze_symbol_table_for_objc(Mem, Size, result) /\ Keep

AddClass == \E n \in ClassArgs : result' = add_class_to_result(result, n) /\ Keep

AddCategory == \E n \in CategoryArgs : result' = add_category_to_result(result, n) /\ Keep

AddCategoryWithClass ==
    \E p \in CategoryPairs :
        result' = class_dump_add_category_with_class(result, p[1], p[2]) /\ Keep

AddProtocol == \E n \in ProtocolArgs : result' = add_protocol_to_result(result, n) /\ Keep

NextScan ==
    \/ AnalyzeClasses \/ AnalyzeCategories \/ AnalyzeProtocols
    \/ ScanIvars \/ ScanMethods \/ AnalyzeStrings \/ AnalyzeSymbolTable
    \/ AddClass \/ AddCategory \/ AddCategoryWithClass \/ AddProtocol

SpecScan == InitScan /\ [][NextScan]_vars

NoDup(list) == \A i, j \in 1..Len(list) : list[i] = list[j] => i = j

\* C4: whatever passes and add operations ran, in whatever order, no two
\* classes share a name, no two categories share a (class, category) pair, no
\* two protocols share a name, and no ivar or method occurs twice in one set.
Thm_C4 ==
    /\ NoDup([i \in 1..Len(result.classes) |-> result.classes[i].className])
    /\ NoDup([i \in 1..Len(result.categories) |->
                 <<result.categories[i].className, result.categories[i].categoryName>>])
    /\ NoDup([i \in 1..Len(result.protocols) |-> result.protocols[i].protocolName])
    /\ \A i \in 1..Len(result.classes) :
          /\ NoDup(result.classes[i].ivars)
          /\ NoDup(result.classes[i].instanceMethods)
          /\ NoDup(result.classes[i].classMethods)
    /\ \A i \in 1..Len(result.categories) :
          /\ NoDup(result.categories[i].instanceMethods)
          /\ NoDup(result.categories[i].classMethods)

\* the file with every pattern twice was scanned by all passes, and the add
\* operations were offered names the scans had already recorded
Witness_C4 ==
    /\ binary = DupBinary
    /\ Len(result.classes) = 2
    /\ result.classes[1].className = <<"Z","e","d">>
    /\ result.classes[2].className = <<"F","o","o">>
    /\ result.classes[2].ivars = <<<<"c","o","u","n","t","e","r">>>>
    /\ result.classes[2].instanceMethods = <<<<"t","i","c","k">>>>
    /\ result.classes[2].classMethods = <<<<"t","i","c","k">>>>
    /\ Len(result.categories) = 3
    /\ \E i \in 1..3 : /\ result.categories[i].className = <<"F","o","o">>
                       /\ result.categories[i].categoryName = <<"B","a","r">>
                       /\ result.categories[i].instanceMethods = <<<<"t","i","c","k">>>>
    /\ \E i \in 1..3 : /\ result.categories[i].className = <<"N","S","O","b","j","e","c","t">>
                       /\ result.categories[i].categoryName = <<"B","a","r">>
    /\ Len(result.protocols) = 1

(***************************************************************************)
(* class_dump_binary on files made of the four strings of scenario S6 and   *)
(* on the memory images                                                     *)
(***************************************************************************)
InitDump ==
    /\ DecoderIdle
    /\ \/ /\ scenario \in Scenarios
          /\ binary = S6Binary(scenario)
          /\ beyond \in Beyonds
       \/ /\ scenario = NoScenario
          /\ \E image \in Prefix(ImageProbes, NumImages) :
                binary = image.binary /\ beyond = image.beyond
       \/ /\ scenario = NoScenario
          /\ binary \in LongFiles
          /\ beyond = <<>>
    /\ header = NoHeader
    /\ stale = {}
    /\ result = EmptyResult
    /\ phase = "idle"

ClassDumpBinary ==
    LET r == class_dump_binary(Mem, Size)
    IN  /\ result' = r.result
        /\ phase' = IF r.fallback THEN "fallback" ELSE "scanned"
        /\ UNCHANGED <<decvars, binary, beyond, scenario, header, stale>>

GenerateClassHeader ==
    /\ phase # "idle"
    /\ \E i \in 1..Len(result.classes) :
          header' \in Emitted("class", class_dump_generate_class_header(result.classes[i]),
                              ClassHeaderCapacity)
    /\ UNCHANGED <<decvars, binary, beyond, result, phase, scenario, stale>>

GenerateCategoryHeader ==
    /\ phase # "idle"
    /\ \E i \in 1..Len(result.categories) :
          header' \in Emitted("category",
                              class_dump_generate_category_header(result.categories[i]),
                              EntityHeaderCapacity)
    /\ UNCHANGED <<decvars, binary, beyond, result, phase, scenario, stale>>

GenerateProtocolHeader ==
    /\ phase # "idle"
    /\ \E i \in 1..Len(result.protocols) :
          header' \in Emitted("protocol",
                              class_dump_generate_protocol_header(result.protocols[i]),
                              EntityHeaderCapacity)
    /\ UNCHANGED <<decvars, binary, beyond, result, phase, scenario, stale>>

NextDump ==
    \/ ClassDumpBinary
    \/ GenerateClassHeader \/ GenerateCategoryHeader \/ GenerateProtocolHeader

SpecDump == InitDump /\ [][NextDump]_vars

\* a non-empty name without NUL, CR, LF, space, dot, bracket, parenthesis, "_$_"
Plain(name) ==
    /\ name # <<>>
    /\ \A i \in 1..Len(name) :
          name[i] \notin {NUL, CR, LF, " ", ".", "[", "]", "(", ")"}
    /\ ~strstr(name, <<"_","$","_">>)

PlainNames ==
    Plain(scenario.C) /\ Plain(scenario.K) /\ Plain(scenario.v) /\ Plain(scenario.m)

\* one class C under NSObject with ivars {v}, instance methods {m} and no
\* class methods, one category (C, K), no protocols, fallback not run
S6Result ==
    /\ phase = "scanned"
    /\ Len(result.classes) = 1
    /\ result.classes[1].className = scenario.C
    /\ result.classes[1].superclassName = <<"N","S","O","b","j","e","c","t">>
    /\ result.classes[1].ivars = <<scenario.v>>
    /\ result.classes[1].instanceMethods = <<scenario.m>>
    /\ result.classes[1].classMethods = <<>>
    /\ Len(result.categories) = 1
    /\ result.categories[1].className = scenario.C
    /\ result.categories[1].categoryName = scenario.K
    /\ result.protocols = <<>>

\* C10 as stated: for all plain names C, K, v, m the scan of the four strings,
\* in any order, yields exactly class C with {v} and {m}, category (C, K), no
\* protocols, without the fallback.
Claim_C10 == (phase # "idle" /\ PlainNames) => S6Result

EndsWith(s, t) == Len(s) >= Len(t) /\ SubSeq(s, Len(s) - Len(t) + 1, Len(s)) = t

\* C10 amended: the same, for names where C does not end with "_$" and
\* "C m" is shorter than 200 bytes.
Thm_C10 ==
    (/\ phase # "idle"
     /\ PlainNames
     /\ ~EndsWith(scenario.C, <<"_","$">>)
     /\ Len(scenario.C) + 1 + Len(scenario.m) < 200) => S6Result

\* the longest "C m" the method scan accepts, with the strings out of S6's
\* order and a category name that starts with "$_"
Witness_C10 ==
    /\ phase = "scanned"
    /\ PlainNames
    /\ scenario.C = <<"A">>
    /\ scenario.K = <<"$","_","K">>
    /\ scenario.m = Sel(197)
    /\ scenario.order = <<4, 3, 2, 1>>
    /\ S6Result

(***************************************************************************)
(* C11: the fallback of class_dump_binary                                   *)
(***************************************************************************)
\* what the class, category, protocol, ivar and method passes find in the file
ScansOf ==
    class_dump_scan_methods(Mem, Size,
        class_dump_scan_ivars(Mem, Size,
            class_dump_analyze_protocols(Mem, Size,
                class_dump_analyze_categories(Mem, Size,
                    class_dump_analyze_classes(Mem, Size, EmptyResult)))))

\* one class SampleClass, one category SampleCategory on NSObject, one
\* protocol SampleProtocol, and nothing else
OnlyPlaceholders ==
    /\ Len(result.classes) = 1
    /\ result.classes[1].className = <<"S","a","m","p","l","e","C","l","a","s","s">>
    /\ Len(result.categories) = 1
    /\ result.categories[1].categoryName = <<"S","a","m","p","l","e","C","a","t","e","g","o","r","y">>
    /\ result.categories[1].className = <<"N","S","O","b","j","e","c","t">>
    /\ Len(result.protocols) = 1
    /\ result.protocols[1].protocolName = <<"S","a","m","p","l","e","P","r","o","t","o","c","o","l">>

\* a selector of the allow-list lies in the bytes of the file
SelectorInFile ==
    \E p \in 1..Len(stringPatterns) : strstr(binary, stringPatterns[p])

\* C11: the fallback runs only when the five passes found no class, no
\* category and no protocol; having run, it leaves the result empty (then no
\* allow-listed selector lies in the file) or holding exactly the three
\* placeholders; when it does not run the result is what the passes found.
Thm_C11 ==
    /\ phase = "fallback" =>
          /\ IsEmptyResult(ScansOf)
          /\ IsEmptyResult(result) \/ OnlyPlaceholders
          /\ IsEmptyResult(result) => ~SelectorInFile
    /\ phase = "scanned" =>
          /\ ~IsEmptyResult(ScansOf)
          /\ result = ScansOf

\* the fallback ran on a file of selectors only and put the placeholders in
Witness_C11 ==
    /\ phase = "fallback"
    /\ binary = <<"i","n","i","t">> \o <<NUL>> \o <<"d","e","a","l","l","o","c">>
    /\ OnlyPlaceholders

(***************************************************************************)
(* C12: header emission                                                     *)
(***************************************************************************)
\* C12 as stated: every call of a header emitter on a record of the scanner
\* returns a non-empty string that ends in "@end\n\n" and writes nothing but
\* its own buffer.
Claim_C12 ==
    header.kind # "none" =>
        /\ header.ret # <<>>
        /\ EndsWith(header.ret, <<"@","e","n","d">> \o <<LF, LF>>)
        /\ ~header.overrun

(***************************************************************************)
(* Insertions with a failing allocator                                      *)
(***************************************************************************)
\* entities a result may hold
MaxEntities == 2

IvarArgs == {<<"c","o","u","n","t","e","r">>, <<"t","i","c","k">>}

Entities == Len(result.classes) + Len(result.categories) + Len(result.protocols)

InitAlloc ==
    /\ DecoderIdle
    /\ ScanIdle

KeepAlloc == UNCHANGED <<decvars, binary, beyond, phase, scenario, header>>

AddClassAlloc ==
    /\ Entities < MaxEntities
    /\ \E n \in ClassArgs, alloc \in EntityAllocs :
          result' = add_class_to_result_alloc(result, n, alloc)
    /\ UNCHANGED stale
    /\ KeepAlloc

AddCategoryAlloc ==
    /\ Entities < MaxEntities
    /\ \E p \in CategoryPairs, alloc \in EntityAllocs :
          result' = class_dump_add_category_with_class_alloc(result, p[1], p[2], alloc)
    /\ UNCHANGED stale
    /\ KeepAlloc

AddProtocolAlloc ==
    /\ Entities < MaxEntities
    /\ \E n \in ProtocolArgs, alloc \in EntityAllocs :
          result' = add_protocol_to_result_alloc(result, n, alloc)
    /\ UNCHANGED stale
    /\ KeepAlloc

\* class_dump_add_unique_string on the ivar list of a class; a list whose
\* pointer is stale is not touched again
AddIvarAlloc ==
    /\ \E i \in 1..Len(result.classes), v \in IvarArgs, alloc \in StringAllocs :
          /\ <<"ivars", i>> \notin stale
          /\ LET r == class_dump_add_unique_string_alloc(result.classes[i].ivars, v, alloc)
             IN  /\ result' = [result EXCEPT !.classes[i].ivars = r.list]
                 /\ stale' = IF r.stale THEN stale \cup {<<"ivars", i>>} ELSE stale
    /\ KeepAlloc

NextAlloc == AddClassAlloc \/ AddCategoryAlloc \/ AddProtocolAlloc \/ AddIvarAlloc

SpecAlloc == InitAlloc /\ [][NextAlloc]_vars

\* C13: whatever allocation failed during the insertions so far, every list
\* pointer of the result designates its live array, no counted class,
\* category or protocol has a NULL name, and no name occurs twice.
Claim_C13 ==
    /\ stale = {}
    /\ \A i \in 1..Len(result.classes) : result.classes[i].className # <<>>
    /\ \A i \in 1..Len(result.categories) :
          /\ result.categories[i].categoryName # <<>>
          /\ result.categories[i].className # <<>>
    /\ \A i \in 1..Len(result.protocols) : result.protocols[i].protocolName # <<>>
    /\ NoDup([i \in 1..Len(result.classes) |-> result.classes[i].className])
    /\ NoDup([i \in 1..Len(result.protocols) |-> result.protocols[i].protocolName])
    /\ \A i \in 1..Len(result.classes) : NoDup(result.classes[i].ivars)

IsBCond(b) == Bits(b, 24, 8) = 84

IsCbz(b) == Bits(b, 24, 7) \in {52, 53}

IsTbz(b) == Bits(b, 24, 7) \in {54, 55}

\* C15: every B.cond word (bits 31:24 = 0x54), CBZ/CBNZ word (bits 30:24 =
\* 0x34, 0x35) and TBZ/TBNZ word (bits 30:24 = 0x36, 0x37) decodes to a record
\* with category branch, has_branch, updates_pc, branch_type conditional and
\* branch_target = address + 4 * the sign-extended immediate (imm19, or imm14
\* for TBZ/TBNZ); CBZ/CBNZ records have rt in regs_read.
Claim_C15 ==
    (Called /\ (IsBCond(bytes) \/ IsCbz(bytes) \/ IsTbz(bytes))) =>
        /\ inst.category = "branch"
        /\ inst.has_branch
        /\ inst.updates_pc
        /\ inst.branch_type = "conditional"
        /\ inst.branch_target =
              Add64(address, I64OfInt(4 * (IF IsTbz(bytes)
                                           THEN SignExt(Bits(bytes, 5, 14), 14)
                                           ELSE SignExt(Bits(bytes, 5, 19), 19))))
        /\ IsCbz(bytes) => Bits(bytes, 0, 5) \in inst.regs_read

IsLdrStrUnsigned(b) == Bits(b, 24, 8) \in {57, 121, 185, 249}

\* C16: every word with top byte 0x39, 0x79, 0xB9 or 0xF9 decodes to LDR when
\* bit 22 is set and to STR when it is clear, with category load-store and
\* the offset imm12 << size displayed; none is decoded as data-processing.
Claim_C16 ==
    (Called /\ IsLdrStrUnsigned(bytes)) =>
        /\ inst.mnemonic = IF Bits(bytes, 22, 1) = 1 THEN <<"L","D","R">> ELSE <<"S","T","R">>
        /\ inst.category = "load-store"
        /\ EndsWith(inst.operands,
                    <<"#">> \o FmtU(Bits(bytes, 10, 12) * Pow2(Bits(bytes, 30, 2))) \o <<"]">>)
        /\ inst.category # "data-processing"

\* ORR (shifted register): bits 30:29 = 01, bits 28:24 = 01010, N = 0
IsOrrShifted(b) == Bits(b, 29, 2) = 1 /\ Bits(b, 24, 5) = 10 /\ Bits(b, 21, 1) = 0

\* the operand between the first and the second comma, trimmed
MiddleOperand(ops) ==
    LET first_comma == strchr(ops, ",", 1)
        second_comma == IF first_comma = 0 THEN 0 ELSE strchr(ops, ",", first_comma + 1)
    IN  IF second_comma = 0 THEN <<>>
        ELSE TrimRight(TrimLeft(SubSeq(ops, first_comma + 1, second_comma - 1)))

\* C17: every shifted-register ORR word with rn = 31 and N = 0 (0xAA0103E0 is
\* one) decodes to MOV with operands "Xd, Xm", category data-processing,
\* regs_read = {rm} and regs_written = {rd}; no record has mnemonic ORR with
\* XZR or SP as its middle operand.
Claim_C17 ==
    Called =>
        /\ (IsOrrShifted(bytes) /\ Bits(bytes, 5, 5) = 31) =>
              /\ inst.mnemonic = <<"M","O","V">>
              /\ inst.operands = arm64_register_name(Bits(bytes, 0, 5), Bits(bytes, 31, 1) = 1)
                                 \o <<","," ">>
                                 \o arm64_register_name(Bits(bytes, 16, 5), Bits(bytes, 31, 1) = 1)
              /\ inst.category = "data-processing"
              /\ inst.regs_read = {Bits(bytes, 16, 5)}
              /\ inst.regs_written = {Bits(bytes, 0, 5)}
        /\ inst.mnemonic = <<"O","R","R">> =>
              MiddleOperand(inst.operands)
                  \notin {<<"S","P">>, <<"W","S","P">>, <<"X","Z","R">>, <<"W","Z","R">>}

IsAdrWord(b) == Bits(b, 24, 5) = 16

\* immhi:immlo as a signed 21-bit value
AdrSImm21(b) == SignExt(Bits(b, 5, 19) * 4 + Bits(b, 29, 2), 21)

\* C18: for every ADR/ADRP word and address, with imm = immhi:immlo
\* sign-extended, ADR gives branch_target = address + imm and ADRP gives
\* branch_target = (address & ~0xFFF) + imm * 4096 modulo 2^64, for negative
\* and non-negative imm; rd is in regs_written, has_branch_target is set,
\* has_branch and updates_pc are not.
Claim_C18 ==
    (Called /\ IsAdrWord(bytes)) =>
        /\ inst.branch_target =
              IF Bits(bytes, 31, 1) = 1
              THEN Add64(PageOf(address), Shl12(I64OfInt(AdrSImm21(bytes))))
              ELSE Add64(address, I64OfInt(AdrSImm21(bytes)))
        /\ Bits(bytes, 0, 5) \in inst.regs_written
        /\ inst.has_branch_target
        /\ ~inst.has_branch
        /\ ~inst.updates_pc

\* the registers a load/store-pair word names: rt and rt2 in the width of
\* the pair, the base rn as an X register
PairNames(b) ==
    {arm64_register_name(Bits(b, 0, 5), Bits(b, 31, 1) = 1),
     arm64_register_name(Bits(b, 10, 5), Bits(b, 31, 1) = 1),
     arm64_register_name(Bits(b, 5, 5), TRUE)}

IsFramePop ==
    /\ inst.mnemonic = <<"L","D","P">>
    /\ {<<"X","2","9">>, <<"X","3","0">>} \subseteq PairNames(bytes)

\* C19: decoded with the heuristics flag cleared or with a NULL context, no
\* record has is_function_start and a record has is_function_end exactly
\* when its mnemonic is RET; decoded with the flag on, a record has
\* is_function_end exactly when it is RET or an LDP naming X29 and X30.
Thm_C19 ==
    Called =>
        IF ctxarg.null \/ DISASM_FLAG_PROLOGUE_EPILOGUE_HEURISTICS \notin ctxarg.flags
        THEN /\ ~inst.is_function_start
             /\ inst.is_function_end <=> inst.mnemonic = <<"R","E","T">>
        ELSE inst.is_function_end <=> (inst.mnemonic = <<"R","E","T">> \/ IsFramePop)

\* the pair load of X29 and X30 from SP, decoded after the flag was cleared
Witness_C19 ==
    /\ Called
    /\ ~ctxarg.null /\ ctxarg.flags = {} /\ ctx.flags = {}
    /\ bytes = PairWord(675, 1, 30, 31, 29)
    /\ IsFramePop
    /\ ~inst.is_function_end /\ ~inst.is_function_start

(***************************************************************************)
(* DisassemblyEngine.c: the code loader and the sequential driver.  The     *)
(* context carries the Mach-O it was created for (its sections, each with   *)
(* the bytes the file holds at the section's offset, and the byte-swap      *)
(* flag), the code buffer, the cursor and the instruction vector.  A        *)
(* pointer is a record whose null field tells NULL from a live block.       *)
(***************************************************************************)
\* after: the bytes that lie in memory behind the block
NullData == [null |-> TRUE, bytes |-> <<>>, after |-> <<>>]

\* room: the number of records the block was allocated for
NullVector == [null |-> TRUE, recs |-> <<>>, room |-> 0]

\* disasm_create (lines 50-73): calloc, macho_ctx, arch from the CPU type,
\* the default flags
disasm_create(macho_ctx) ==
    [flags |-> {DISASM_FLAG_PROLOGUE_EPILOGUE_HEURISTICS},
     macho_ctx |-> macho_ctx,
     arch |-> IF macho_ctx.cputype = "CPU_TYPE_ARM64" THEN "ARCH_ARM64"
              ELSE IF macho_ctx.cputype = "CPU_TYPE_X86_64" THEN "ARCH_X86_64"
              ELSE "ARCH_UNKNOWN",
     code_data |-> NullData, code_size |-> 0, code_base_addr |-> Zero64,
     current_offset |-> 0,
     instructions |-> NullVector, instruction_count |-> 0, instruction_capacity |-> 0]

\* strncmp(a, b, 16) == 0
SameSectname(a, b) == Take(a, 16) = Take(b, 16)

\* the sections of a Mach-O that strncmp matches with a name, in file order
Matching(macho_ctx, chars) ==
    SelectSeq(macho_ctx.sections, LAMBDA s : SameSectname(s.sectname, chars))

\* variant: a short read leaves the partly filled buffer in the context
disasm_load_section_dangling(c, null, section_name, malloc_ok, after) ==
    IF null \/ section_name.null THEN [ctx |-> c, ret |-> FALSE]
    ELSE LET found == Matching(c.macho_ctx, section_name.chars)
         IN  IF found = <<>> THEN [ctx |-> c, ret |-> FALSE]
             ELSE LET sect == found[1]
                      c1 == [c EXCEPT !.code_size = sect.size, !.code_base_addr = sect.addr]
                      got == Take(sect.data, sect.size)
                  IN  IF ~malloc_ok
                      THEN [ctx |-> [c1 EXCEPT !.code_data = NullData], ret |-> FALSE]
                      ELSE [ctx |-> [c1 EXCEPT !.code_data = [null |-> FALSE, bytes |-> got, after |-> after]],
                            ret |-> Len(got) = sect.size]

\* disasm_load_section (lines 139-166); malloc_ok is the outcome of malloc,
\* after what lies behind the block it returns; the bytes fread delivers are
\* those the file holds
disasm_load_section(c, null, section_name, malloc_ok, after) ==
    IF null \/ section_name.null THEN [ctx |-> c, ret |-> FALSE]
    ELSE LET found == Matching(c.macho_ctx, section_name.chars)
         IN  IF found = <<>> THEN [ctx |-> c, ret |-> FALSE]
             ELSE LET sect == found[1]
                      c1 == [c EXCEPT !.code_size = sect.size, !.code_base_addr = sect.addr]
                      got == Take(sect.data, sect.size)
                  IN  IF ~malloc_ok
                      THEN [ctx |-> [c1 EXCEPT !.code_data = NullData], ret |-> FALSE]
                      ELSE IF Len(got) # sect.size
                      THEN [ctx |-> [c1 EXCEPT !.code_data = NullData], ret |-> FALSE]
                      ELSE [ctx |-> [c1 EXCEPT !.code_data = [null |-> FALSE, bytes |-> got, after |-> after]],
                            ret |-> TRUE]

\* the four bytes of a word in memory order (little-endian host)
BytesOf(w) == <<w.lo % 256, w.lo \div 256, w.hi % 256, w.hi \div 256>>

\* *(uint32_t*)(code_data + off)
WordAt(data, off) ==
    U32(data[off + 4] * 256 + data[off + 3], data[off + 2] * 256 + data[off + 1])

\* swap_uint32: the four bytes in reverse order
swap_uint32(w) ==
    U32((w.lo % 256) * 256 + w.lo \div 256, (w.hi % 256) * 256 + w.hi \div 256)

(***************************************************************************)
(* disasm_x86_64: b holds the bytes from the instruction's first byte on    *)
(* (the decoder reads at most six), a is its address                        *)
(***************************************************************************)
\* (int8_t)v
I8(v) == IF v >= 128 THEN v - 256 ELSE v

\* the little-endian int32_t in four bytes, as int64_t
I32Of(b0, b1, b2, b3) ==
    IF b3 >= 128 THEN <<b1 * 256 + b0, b3 * 256 + b2, 65535, 65535>>
    ELSE <<b1 * 256 + b0, b3 * 256 + b2, 0, 0>>

\* printf("%02X")
Fmt02X(v) == <<UpperHex[(v \div 16) + 1], UpperHex[(v % 16) + 1]>>

regs64 == <<<<"r","a","x">>, <<"r","c","x">>, <<"r","d","x">>, <<"r","b","x">>, <<"r","s","p">>, <<"r","b","p">>, <<"r","s","i">>, <<"r","d","i">>>>

regs64_rex == <<<<"r","8">>, <<"r","9">>, <<"r","1","0">>, <<"r","1","1">>, <<"r","1","2">>, <<"r","1","3">>, <<"r","1","4">>, <<"r","1","5">>>>

regs32 == <<<<"e","a","x">>, <<"e","c","x">>, <<"e","d","x">>, <<"e","b","x">>, <<"e","s","p">>, <<"e","b","p">>, <<"e","s","i">>, <<"e","d","i">>>>

cond_short ==
    <<<<"J","O">>, <<"J","N","O">>, <<"J","B">>, <<"J","A","E">>, <<"J","E">>, <<"J","N","E">>, <<"J","B","E">>, <<"J","A">>,
      <<"J","S">>, <<"J","N","S">>, <<"J","P">>, <<"J","N","P">>, <<"J","L">>, <<"J","G","E">>, <<"J","L","E">>, <<"J","G">>>>

cond_near ==
    <<<<"J","O">>, <<"J","N","O">>, <<"J","B">>, <<"J","N","B">>, <<"J","Z">>, <<"J","N","Z">>, <<"J","B","E">>, <<"J","N","B","E">>,
      <<"J","S">>, <<"J","N","S">>, <<"J","P">>, <<"J","N","P">>, <<"J","L">>, <<"J","N","L">>, <<"J","L","E">>, <<"J","N","L","E">>>>

cond_set ==
    <<<<"S","E","T","O">>, <<"S","E","T","N","O">>, <<"S","E","T","B">>, <<"S","E","T","N","B">>, <<"S","E","T","Z">>, <<"S","E","T","N","Z">>, <<"S","E","T","B","E">>, <<"S","E","T","N","B","E">>,
      <<"S","E","T","S">>, <<"S","E","T","N","S">>, <<"S","E","T","P">>, <<"S","E","T","N","P">>, <<"S","E","T","L">>, <<"S","E","T","N","L">>, <<"S","E","T","L","E">>, <<"S","E","T","N","L","E">>>>

\* the one-byte instructions without operands (lines 1097-1175): mnemonic
\* and category
X86Plain(opcode, has_rex) ==
    CASE opcode = 144 -> <<<<"N","O","P">>, "data-processing">>
      [] opcode = 204 -> <<<<"I","N","T","3">>, "system">>
      [] opcode = 244 -> <<<<"H","L","T">>, "system">>
      [] opcode = 201 -> <<<<"L","E","A","V","E">>, "data-processing">>
      [] opcode = 156 -> <<IF has_rex THEN <<"P","U","S","H","F","Q">> ELSE <<"P","U","S","H","F">>, "data-processing">>
      [] opcode = 157 -> <<IF has_rex THEN <<"P","O","P","F","Q">> ELSE <<"P","O","P","F">>, "data-processing">>
      [] opcode = 153 -> <<IF has_rex THEN <<"C","Q","O">> ELSE <<"C","D","Q">>, "data-processing">>
      [] opcode = 245 -> <<<<"C","M","C">>, "data-processing">>
      [] opcode = 248 -> <<<<"C","L","C">>, "data-processing">>
      [] opcode = 249 -> <<<<"S","T","C">>, "data-processing">>
      [] OTHER -> <<>>

\* a branch with a relative target (JMP, CALL, Jcc): the fields they share
X86Branch(z, m, type, target, len) ==
    [z EXCEPT !.mnemonic = m,
              !.branch_target = target,
              !.has_branch_target = TRUE,
              !.has_branch = TRUE,
              !.operands = <<"0","x">> \o FmtLLX(target),
              !.branch_type = type,
              !.category = "branch",
              !.is_valid = TRUE,
              !.length = len,
              !.updates_pc = TRUE]

\* lines 1097-1372: the opcode table
X86Decode(z, b, a) ==
    LET has_rex == b[1] >= 64 /\ b[1] <= 79
        rex     == IF has_rex THEN b[1] ELSE 0
        pos     == IF has_rex THEN 2 ELSE 1
        opcode  == b[pos]
        rel8    == Add64(Add64(a, U64OfNat(pos + 1)), I64OfInt(I8(b[pos + 1])))
        rel32   == Add64(Add64(a, U64OfNat(pos + 4)),
                         I32Of(b[pos + 1], b[pos + 2], b[pos + 3], b[pos + 4]))
    IN  IF opcode = 195 \/ opcode = 203
        THEN [z EXCEPT !.mnemonic = IF opcode = 195 THEN <<"R","E","T">> ELSE <<"R","E","T","F">>,
                       !.has_branch = TRUE, !.branch_type = "return",
                       !.category = "branch", !.is_valid = TRUE,
                       !.is_function_end = TRUE, !.length = pos]
        ELSE IF opcode = 194
        THEN [z EXCEPT !.mnemonic = <<"R","E","T">>,
                       !.operands = IF pos + 2 <= 15
                                    THEN <<"0","x">> \o FmtHexNat(b[pos + 2] * 256 + b[pos + 1], LowerHex)
                                    ELSE <<>>,
                       !.length = IF pos + 2 <= 15 THEN pos + 2 ELSE 1,
                       !.has_branch = TRUE, !.branch_type = "return",
                       !.category = "branch", !.is_valid = TRUE,
                       !.is_function_end = TRUE]
        ELSE IF X86Plain(opcode, has_rex) # <<>>
        THEN [z EXCEPT !.mnemonic = X86Plain(opcode, has_rex)[1],
                       !.category = X86Plain(opcode, has_rex)[2],
                       !.is_valid = TRUE, !.length = pos]
        ELSE IF opcode >= 80 /\ opcode <= 87
        THEN [z EXCEPT !.mnemonic = <<"P","U","S","H">>,
                       !.operands = IF has_rex /\ rex % 2 = 1 THEN regs64_rex[opcode - 79]
                                    ELSE regs64[opcode - 79],
                       !.category = "data-processing", !.is_valid = TRUE, !.length = pos,
                       !.regs_read = @ \cup {opcode - 80}]
        ELSE IF opcode >= 88 /\ opcode <= 95
        THEN [z EXCEPT !.mnemonic = <<"P","O","P">>,
                       !.operands = IF has_rex /\ rex % 2 = 1 THEN regs64_rex[opcode - 87]
                                    ELSE regs64[opcode - 87],
                       !.category = "data-processing", !.is_valid = TRUE, !.length = pos,
                       !.regs_written = @ \cup {opcode - 88}]
        ELSE IF opcode = 233
        THEN IF pos + 4 <= 15 THEN X86Branch(z, <<"J","M","P">>, "unconditional", rel32, pos + 4)
             ELSE [z EXCEPT !.mnemonic = <<"J","M","P">>]
        ELSE IF opcode = 235
        THEN IF pos < 15 THEN X86Branch(z, <<"J","M","P">>, "unconditional", rel8, pos + 1)
             ELSE [z EXCEPT !.mnemonic = <<"J","M","P">>]
        ELSE IF opcode = 232
        THEN IF pos + 4 <= 15 THEN X86Branch(z, <<"C","A","L","L">>, "call", rel32, pos + 4)
             ELSE [z EXCEPT !.mnemonic = <<"C","A","L","L">>]
        ELSE IF opcode >= 112 /\ opcode <= 127
        THEN IF pos < 15
             THEN [X86Branch(z, cond_short[opcode - 111], "conditional", rel8, pos + 1)
                      EXCEPT !.branch_offset = I64OfInt(I8(b[pos + 1]))]
             ELSE [z EXCEPT !.mnemonic = cond_short[opcode - 111]]
        ELSE IF opcode = 15 /\ z.length < 15
        THEN LET opcode2 == b[2]
             IN  IF opcode2 >= 128 /\ opcode2 <= 143
                 THEN [X86Branch(z, cond_near[opcode2 - 127], "conditional",
                                 Add64(Add64(a, U64OfNat(6)), I32Of(b[3], b[4], b[5], b[6])), 6)
                          EXCEPT !.updates_pc = FALSE]
                 ELSE IF opcode2 >= 144 /\ opcode2 <= 159
                 THEN [z EXCEPT !.mnemonic = cond_set[opcode2 - 143],
                                !.operands = <<"r","/","m","8">>, !.length = 3,
                                !.category = "data-processing", !.is_valid = TRUE]
                 ELSE IF opcode2 = 11
                 THEN [z EXCEPT !.mnemonic = <<"U","D","2">>, !.category = "system",
                                !.is_valid = TRUE, !.length = 2]
                 ELSE [z EXCEPT !.mnemonic = <<".","b","y","t","e">>,
                                !.operands = <<"0","x","0","F"," ","0","x">> \o Fmt02X(opcode2),
                                !.is_valid = TRUE, !.length = 2]
        ELSE IF opcode >= 184 /\ opcode <= 191
        THEN [z EXCEPT !.mnemonic = <<"M","O","V">>,
                       !.operands = regs32[opcode - 183] \o <<","," ","0","x">>
                                    \o Fmt08X(U32(b[5] * 256 + b[4], b[3] * 256 + b[2])),
                       !.category = "data-processing", !.is_valid = TRUE, !.length = 5]
        ELSE IF opcode = 205
        THEN [z EXCEPT !.mnemonic = <<"I","N","T">>, !.operands = <<"0","x">> \o Fmt02X(b[2]),
                       !.category = "system", !.is_valid = TRUE, !.length = 2]
        ELSE [z EXCEPT !.mnemonic = <<".","b","y","t","e">>, !.operands = <<"0","x">> \o Fmt02X(opcode),
                       !.is_valid = TRUE, !.length = 1]

\* lines 1374-1378: full_disasm and the value returned
X86Finish(i) ==
    [inst |-> [i EXCEPT !.full_disasm = <<"0","x">> \o FmtLLX(i.address) \o <<":"," ">>
                                        \o i.mnemonic \o <<" ">> \o i.operands],
     ret |-> i.is_valid]

\* disasm_x86_64(bytes, address, inst) (lines 1075-1379): the record left in
\* *inst and the value returned
disasm_x86_64(b, a, old) ==
    X86Finish(X86Decode([ZeroInst EXCEPT !.address = a, !.length = 1], b, a))

\* what disasm_instruction leaves: the context with its cursor advanced, and
\* the record and the value of the decoder
Decoded(c, r) == [ctx |-> c, inst |-> r.inst, ret |-> r.ret]

\* code_data[off], also behind the end of the block
CodeByte(data, off) ==
    IF off < Len(data.bytes) THEN data.bytes[off + 1]
    ELSE data.after[off - Len(data.bytes) + 1]

\* the six bytes from code_data + off on: disasm_x86_64 reads no more
X86Window(data, off) == [k \in 1..6 |-> CodeByte(data, off + k - 1)]

\* lines 1400-1402: the cursor moves by the length the decoder reported
X86Advance(c, r) == Decoded([c EXCEPT !.current_offset = @ + r.inst.length], r)

\* variant: the word is never byte-swapped
disasm_instruction_noswap(c, null, old) ==
    IF null \/ c.code_data.null \/ c.current_offset >= c.code_size
    THEN [ctx |-> c, inst |-> old, ret |-> FALSE]
    ELSE IF c.arch = "ARCH_ARM64"
    THEN IF c.current_offset + 4 > c.code_size
         THEN [ctx |-> c, inst |-> old, ret |-> FALSE]
         ELSE LET addr == Add64(c.code_base_addr, U64OfNat(c.current_offset))
                  raw == WordAt(c.code_data.bytes, c.current_offset)
              IN  Decoded([c EXCEPT !.current_offset = @ + 4],
                          disasm_arm64([null |-> FALSE, flags |-> c.flags], raw, addr, old))
    ELSE IF c.arch = "ARCH_X86_64"
    THEN X86Advance(c, disasm_x86_64(X86Window(c.code_data, c.current_offset),
                                     Add64(c.code_base_addr, U64OfNat(c.current_offset)), old))
    ELSE [ctx |-> c, inst |-> old, ret |-> FALSE]

\* disasm_instruction (lines 1383-1405); old is the previous content of *inst
disasm_instruction(c, null, old) ==
    IF null \/ c.code_data.null \/ c.current_offset >= c.code_size
    THEN [ctx |-> c, inst |-> old, ret |-> FALSE]
    ELSE IF c.arch = "ARCH_ARM64"
    THEN IF c.current_offset + 4 > c.code_size
         THEN [ctx |-> c, inst |-> old, ret |-> FALSE]
         ELSE LET addr == Add64(c.code_base_addr, U64OfNat(c.current_offset))
                  raw == WordAt(c.code_data.bytes, c.current_offset)
                  swapped == IF c.macho_ctx.is_swapped THEN swap_uint32(raw) ELSE raw
              IN  Decoded([c EXCEPT !.current_offset = @ + 4],
                          disasm_arm64([null |-> FALSE, flags |-> c.flags], swapped, addr, old))
    ELSE IF c.arch = "ARCH_X86_64"
    THEN X86Advance(c, disasm_x86_64(X86Window(c.code_data, c.current_offset),
                                     Add64(c.code_base_addr, U64OfNat(c.current_offset)), old))
    ELSE [ctx |-> c, inst |-> old, ret |-> FALSE]

RECURSIVE disasm_all_loop(_, _)

\* lines 1469-1472: r is what disasm_instruction left for
\* instructions[instruction_count]
disasm_all_append(r, allocs) ==
    IF ~r.ret THEN [ctx |-> r.ctx, ret |-> r.ctx.instruction_count]
    ELSE disasm_all_loop([r.ctx EXCEPT !.instructions.recs = Append(@, r.inst),
                                       !.instruction_count = @ + 1],
                         allocs)

\* lines 1461-1475: the loop of disasm_all; allocs is the number of
\* reallocations that succeed before one returns NULL
disasm_all_loop(c, allocs) ==
    IF c.current_offset >= c.code_size THEN [ctx |-> c, ret |-> c.instruction_count]
    ELSE LET grow == c.instruction_count >= c.instruction_capacity
             c1 == IF ~grow THEN c
                   ELSE [c EXCEPT !.instruction_capacity = @ * 2,
                                  !.instructions = IF allocs > 0
                                                   THEN [@ EXCEPT !.room = c.instruction_capacity * 2]
                                                   ELSE NullVector]
         IN  IF c1.instructions.null THEN [ctx |-> c1, ret |-> 0]
             ELSE disasm_all_append(disasm_instruction(c1, FALSE, StaleInst),
                                    IF grow THEN allocs - 1 ELSE allocs)

\* disasm_all (lines 1449-1476); allocs is the number of allocations that
\* succeed before one returns NULL
disasm_all(c, null, allocs) ==
    IF null \/ c.code_data.null THEN [ctx |-> c, ret |-> 0]
    ELSE LET estimated == c.code_size \div 4
             c1 == [c EXCEPT !.current_offset = 0]
         IN  IF allocs = 0 THEN [ctx |-> [c1 EXCEPT !.instructions = NullVector], ret |-> 0]
             ELSE disasm_all_loop(
                      [c1 EXCEPT !.instructions = [null |-> FALSE, recs |-> <<>>, room |-> estimated],
                                 !.instruction_capacity = estimated,
                                 !.instruction_count = 0],
                      allocs - 1)

\* variant: the search starts at the second record
disasm_find_by_address_second(c, null, a) ==
    IF null \/ c.instructions.null THEN -1
    ELSE LET hits == {i \in 2..c.instruction_count : c.instructions.recs[i].address = a}
         IN  IF hits = {} THEN -1 ELSE SetMin(hits) - 1

\* disasm_find_by_address (lines 1491-1501): the index, from 0, of the first
\* record with the address, -1 when there is none
disasm_find_by_address(c, null, a) ==
    IF null \/ c.instructions.null THEN -1
    ELSE LET hits == {i \in 1..c.instruction_count : c.instructions.recs[i].address = a}
         IN  IF hits = {} THEN -1 ELSE SetMin(hits) - 1

(***************************************************************************)
(* Loader and driver state machine: one context, created for one Mach-O,    *)
(* on which sections are loaded and decoded.  ret holds the last call,      *)
(* whether its context was NULL, its arguments and the value returned;      *)
(* memo holds what the calls so far returned.                               *)
(***************************************************************************)
NoName == [null |-> TRUE, chars |-> <<>>]

Name(chars) == [null |-> FALSE, chars |-> chars]

SectionNames == {NoName, Name(<<"_","_","t","e","x","t">>), Name(<<"_","_","s","t","u","b","s">>)}

Section(sectname, size, addr, data) ==
    [sectname |-> sectname, size |-> size, addr |-> addr, data |-> data]

MachO(cputype, is_swapped, sections) ==
    [cputype |-> cputype, is_swapped |-> is_swapped, sections |-> sections]

\* Mach-O files: two sections and stray bytes after the last word; a
\* byte-swapped one; one cut short inside its __text; one without __text;
\* one of another CPU type; one whose __text is shorter than a word
MachOProbes ==
    << MachO("CPU_TYPE_ARM64", FALSE,
             << Section(<<"_","_","t","e","x","t">>, 10, <<4096, 0, 0, 0>>,
                        BytesOf(W_STP) \o BytesOf(W_RET) \o <<1, 2>>),
                Section(<<"_","_","s","t","u","b","s">>, 4, <<8192, 0, 0, 0>>, BytesOf(W_BL)) >>),
       MachO("CPU_TYPE_ARM64", TRUE,
             << Section(<<"_","_","t","e","x","t">>, 8, <<4096, 0, 0, 0>>,
                        BytesOf(swap_uint32(W_BL)) \o BytesOf(swap_uint32(W_RET))) >>),
       MachO("CPU_TYPE_ARM64", FALSE,
             << Section(<<"_","_","t","e","x","t">>, 8, <<4096, 0, 0, 0>>, BytesOf(W_STP) \o <<192, 3>>) >>),
       MachO("CPU_TYPE_ARM64", FALSE,
             << Section(<<"_","_","d","a","t","a">>, 4, <<8192, 0, 0, 0>>, BytesOf(W_NOP)) >>),
       MachO("CPU_TYPE_POWERPC", FALSE,
             << Section(<<"_","_","t","e","x","t">>, 4, <<4096, 0, 0, 0>>, BytesOf(W_RET)) >>),
       MachO("CPU_TYPE_ARM64", FALSE,
             << Section(<<"_","_","t","e","x","t">>, 3, <<4096, 0, 0, 0>>, <<192, 3, 95>>) >>),
       MachO("CPU_TYPE_ARM64", TRUE,
             << Section(<<"_","_","t","e","x","t">>, 12, <<65532, 65535, 0, 0>>,
                        BytesOf(swap_uint32(W_STP)) \o BytesOf(swap_uint32(W_NOP))
                        \o BytesOf(swap_uint32(W_RET))) >>) >>

NumFiles == 6

MachOFiles == Prefix(MachOProbes, NumFiles)

\* allocations a call may be granted before one fails; no call on these
\* files asks for more
MaxAllocs == 2

\* what a call leaves in ret; a load leaves its arguments too
Return(op, null, value) ==
    [op |-> op, null |-> null, value |-> value, section_name |-> NoName, malloc_ok |-> TRUE]

NoReturn == Return("none", FALSE, 0)

NoLoad ==
    [loads |-> FALSE, fresh |-> TRUE, decoded |-> FALSE]

InitDrive ==
    /\ \E m \in MachOFiles : ctx = disasm_create(m)
    /\ bytes = W_BL
    /\ address = Zero64
    /\ ctxarg = NoCall
    /\ inst = ZeroInst
    /\ ret = NoReturn
    /\ memo = NoLoad
    /\ ScanIdle

\* a call disasm_load_section(ctx or NULL, name or NULL); memo.fresh holds as
\* long as no load has returned true
LoadSection ==
    \E null \in BOOLEAN, n \in SectionNames, ok \in BOOLEAN :
        LET r == disasm_load_section(ctx, null, n, ok, <<>>)
        IN  /\ ctx' = r.ctx
            /\ ret' = [Return("disasm_load_section", null, r.ret)
                        EXCEPT !.section_name = n, !.malloc_ok = ok]
            /\ memo' = [memo EXCEPT !.loads = TRUE, !.fresh = @ /\ ~r.ret,
                                    !.decoded = @ /\ r.ctx = ctx]
            /\ UNCHANGED <<bytes, address, ctxarg, inst>>
            /\ UNCHANGED scanvars

\* a call disasm_all(ctx or NULL); memo.decoded holds while the vector is
\* the one a call with every allocation granted left for the loaded buffer
DisasmAll ==
    \E null \in BOOLEAN, allocs \in 0..MaxAllocs :
        \E r \in {disasm_all(ctx, null, allocs)} :
            /\ ctx' = r.ctx
            /\ ret' = Return("disasm_all", null, r.ret)
            /\ memo' = [memo EXCEPT !.decoded = IF null THEN @
                                                ELSE allocs = MaxAllocs /\ ~ctx.code_data.null]
            /\ UNCHANGED <<bytes, address, ctxarg, inst>>
            /\ UNCHANGED scanvars

\* a call disasm_instruction(ctx or NULL, &inst)
DisasmInstruction ==
    \E null \in BOOLEAN :
        \E r \in {disasm_instruction(ctx, null, inst)} :
            /\ ctx' = r.ctx
            /\ inst' = r.inst
            /\ ret' = Return("disasm_instruction", null, r.ret)
            /\ UNCHANGED <<bytes, address, ctxarg, memo>>
            /\ UNCHANGED scanvars

\* addresses looked up: of words of the section, and between two words
FindOffsets == {0, 4, 6}

\* a call disasm_find_by_address(ctx or NULL, address)
FindByAddress ==
    \E null \in BOOLEAN, k \in FindOffsets :
        LET a == Add64(ctx.code_base_addr, U64OfNat(k))
        IN  /\ address' = a
            /\ ret' = Return("disasm_find_by_address", null,
                              disasm_find_by_address(ctx, null, a))
            /\ UNCHANGED <<ctx, bytes, ctxarg, inst, memo>>
            /\ UNCHANGED scanvars

NextDrive == LoadSection \/ DisasmAll \/ DisasmInstruction \/ FindByAddress

SpecDrive == InitDrive /\ [][NextDrive]_vars

\* the named section of the context's Mach-O, when there is one
SectionNamed(chars) == Matching(ctx.macho_ctx, chars)

\* the last load was asked for a section no section of the file has, or was
\* refused its buffer, or found fewer bytes in the file than the section has
LoadMustFail ==
    \/ SectionNamed(ret.section_name.chars) = <<>>
    \/ ~ret.malloc_ok
    \/ Len(SectionNamed(ret.section_name.chars)[1].data)
          < SectionNamed(ret.section_name.chars)[1].size

\* C14: disasm_load_section returns false when no section has the requested
\* name, when malloc fails, or when the file holds fewer bytes than the
\* section; as long as no load on the context has returned true, code_data is
\* NULL, disasm_all returns 0 and disasm_instruction returns false, and
\* neither decodes anything (no record, no vector, the cursor at 0).
Thm_C14 ==
    /\ (ret.op = "disasm_load_section" /\ ~ret.section_name.null /\ LoadMustFail)
          => ret.value = FALSE
    /\ memo.fresh =>
          /\ ctx.code_data.null
          /\ ctx.instructions.null /\ ctx.instruction_count = 0 /\ ctx.current_offset = 0
          /\ inst = ZeroInst
          /\ ret.op = "disasm_all" => ret.value = 0
          /\ ret.op = "disasm_instruction" => ret.value = FALSE

\* a load cut short by the end of the file, then disasm_all
Witness_C14 ==
    /\ memo.loads /\ memo.fresh
    /\ Len(ctx.macho_ctx.sections[1].data) = 6
    /\ ctx.code_size = 8
    /\ ret.op = "disasm_all" /\ ~ret.null /\ ret.value = 0

\* a < b as uint64_t
Less64(a, b) ==
    \E k \in 1..4 : a[k] < b[k] /\ \A j \in (k + 1)..4 : a[j] = b[j]

\* the address of the i-th word (from 0) of the loaded section
WordAddress(i) == Add64(ctx.code_base_addr, U64OfNat(4 * i))

\* the four bytes of the i-th word (from 0) of the code buffer, in the order
\* of significance the Mach-O header tells: last byte first when it is swapped
WordBytes(i) ==
    LET s == SubSeq(ctx.code_data.bytes, 4 * i + 1, 4 * i + 4)
    IN  IF ctx.macho_ctx.is_swapped THEN <<s[4], s[3], s[2], s[1]>> ELSE s

\* C20: after disasm_all on an AArch64 context with a loaded buffer, every
\* allocation granted, instruction_count = code_size div 4 is the value
\* returned, record i has address code_base_addr + 4 * i and raw_bytes the
\* i-th word of the buffer (byte-swapped when the header is swapped),
\* addresses increase strictly along the vector, and disasm_find_by_address
\* of record i's address is i.  Sections lie inside the 64-bit address space.
Thm_C20 ==
    (memo.decoded /\ ctx.arch = "ARCH_ARM64") =>
        LET n == ctx.code_size \div 4
            recs == ctx.instructions.recs
        IN  /\ ctx.instruction_count = n
            /\ Len(recs) = n
            /\ (ret.op = "disasm_all" /\ ~ret.null) => ret.value = n
            /\ \A i \in 0..(n - 1) :
                  /\ recs[i + 1].address = WordAddress(i)
                  /\ BytesOf(recs[i + 1].raw_bytes) = WordBytes(i)
                  /\ disasm_find_by_address(ctx, FALSE, WordAddress(i)) = i
            /\ \A i \in 1..(n - 1) : Less64(recs[i].address, recs[i + 1].address)

\* the byte-swapped section decoded, then its second record looked up
Witness_C20 ==
    /\ memo.decoded /\ ctx.arch = "ARCH_ARM64"
    /\ ctx.macho_ctx.is_swapped
    /\ ctx.instruction_count = 2
    /\ ctx.instructions.recs[1].mnemonic = <<"B","L">>
    /\ ctx.instructions.recs[2].raw_bytes = W_RET
    /\ address = <<4100, 0, 0, 0>>
    /\ ret = Return("disasm_find_by_address", FALSE, 1)

(***************************************************************************)
(* disasm_all and disasm_range, one step of the decode loop at a time.      *)
(* A step leaves the context, where the call stands (pc: "loop" before the  *)
(* loop condition, "call" before disasm_instruction, "idle" once it has     *)
(* returned), the value returned and the offset the loop runs up to.        *)
(***************************************************************************)
\* a - b as uint64_t
Sub64(a, b) == Add64(a, Add64(Not64(b), U64OfNat(1)))

\* v >= n for a uint64_t v and a size n below 2^16
AtLeast64(v, n) == v[2] # 0 \/ v[3] # 0 \/ v[4] # 0 \/ v[1] >= n

Returned(c, value) == [ctx |-> c, pc |-> "idle", value |-> value, end_offset |-> 0]

Looping(c, end_offset) == [ctx |-> c, pc |-> "loop", value |-> 0, end_offset |-> end_offset]

Calling(c, end_offset) == [ctx |-> c, pc |-> "call", value |-> 0, end_offset |-> end_offset]

\* malloc(n * sizeof(DisassembledInstruction)) when it succeeds
NewVector(n) == [null |-> FALSE, recs |-> <<>>, room |-> n]

\* disasm_all up to its loop (lines 1449-1459)
disasm_all_begin(c, null, malloc_ok) ==
    IF null \/ c.code_data.null THEN Returned(c, 0)
    ELSE IF ~malloc_ok
    THEN Returned([c EXCEPT !.current_offset = 0, !.instructions = NullVector], 0)
    ELSE Looping([c EXCEPT !.current_offset = 0,
                           !.instructions = NewVector(c.code_size \div 4),
                           !.instruction_capacity = c.code_size \div 4,
                           !.instruction_count = 0],
                 c.code_size)

\* lines 1417-1419: the size of the range clipped to the section, in words,
\* at least 1
RangeEstimated(start_offset, end_offset) ==
    IF (end_offset - start_offset) \div 4 = 0 THEN 1 ELSE (end_offset - start_offset) \div 4

\* lines 1421-1426
disasm_range_alloc(c, start_offset, end_offset, malloc_ok) ==
    IF ~malloc_ok THEN Returned([c EXCEPT !.instructions = NullVector], 0)
    ELSE Looping([c EXCEPT !.instructions = NewVector(RangeEstimated(start_offset, end_offset)),
                           !.instruction_capacity = RangeEstimated(start_offset, end_offset),
                           !.instruction_count = 0,
                           !.current_offset = start_offset],
                 end_offset)

\* variant: the end of the range is not clipped to the section
disasm_range_begin_unclipped(c, null, start_addr, end_addr, malloc_ok) ==
    IF null \/ ~Less64(start_addr, end_addr) THEN Returned(c, 0)
    ELSE IF AtLeast64(Sub64(start_addr, c.code_base_addr), c.code_size) THEN Returned(c, 0)
    ELSE disasm_range_alloc(c, Sub64(start_addr, c.code_base_addr)[1],
                            Sub64(end_addr, c.code_base_addr)[1],
                            malloc_ok)

\* disasm_range up to its loop (lines 1407-1426)
disasm_range_begin(c, null, start_addr, end_addr, malloc_ok) ==
    IF null \/ ~Less64(start_addr, end_addr) THEN Returned(c, 0)
    ELSE IF AtLeast64(Sub64(start_addr, c.code_base_addr), c.code_size) THEN Returned(c, 0)
    ELSE disasm_range_alloc(c, Sub64(start_addr, c.code_base_addr)[1],
                            IF AtLeast64(Sub64(end_addr, c.code_base_addr), c.code_size + 1)
                            THEN c.code_size
                            ELSE Sub64(end_addr, c.code_base_addr)[1],
                            malloc_ok)

\* the loop condition of disasm_all and the growth of the vector (lines
\* 1461-1467): a failed realloc leaves NULL in the context
disasm_all_test(c, end_offset, realloc_ok) ==
    IF c.current_offset >= end_offset THEN Returned(c, c.instruction_count)
    ELSE IF c.instruction_count >= c.instruction_capacity
    THEN IF ~realloc_ok
         THEN Returned([c EXCEPT !.instruction_capacity = @ * 2,
                                 !.instructions = NullVector], 0)
         ELSE Calling([c EXCEPT !.instruction_capacity = @ * 2,
                                !.instructions.room = c.instruction_capacity * 2],
                      end_offset)
    ELSE Calling(c, end_offset)

\* the loop condition of disasm_range and the growth of the vector (lines
\* 1428-1439): a failed realloc leaves the old block in the context
disasm_range_test(c, end_offset, realloc_ok) ==
    IF c.current_offset >= end_offset THEN Returned(c, c.instruction_count)
    ELSE IF c.instruction_count >= c.instruction_capacity
    THEN IF ~realloc_ok
         THEN Returned([c EXCEPT !.instruction_capacity = @ * 2], c.instruction_count)
         ELSE Calling([c EXCEPT !.instruction_capacity = @ * 2,
                                !.instructions.room = c.instruction_capacity * 2],
                      end_offset)
    ELSE Calling(c, end_offset)

\* variant: the record is appended but the cursor stays where it was
loop_call_stuck(c, r, end_offset) ==
    IF ~r.ret THEN Returned(r.ctx, r.ctx.instruction_count)
    ELSE Looping([r.ctx EXCEPT !.instructions.recs = Append(@, r.inst),
                               !.instruction_count = @ + 1,
                               !.current_offset = c.current_offset],
                 end_offset)

\* lines 1441-1444 and 1469-1472: r is what disasm_instruction left for
\* instructions[instruction_count] of c; break, or count the record
loop_call(c, r, end_offset) ==
    IF ~r.ret THEN Returned(r.ctx, r.ctx.instruction_count)
    ELSE Looping([r.ctx EXCEPT !.instructions.recs = Append(@, r.inst),
                               !.instruction_count = @ + 1],
                 end_offset)

(***************************************************************************)
(* The decode loop as a state machine.  memo holds where the call stands,   *)
(* its arguments, the number of iterations begun and whether a record was   *)
(* written behind the end of the vector's block.                            *)
(***************************************************************************)
\* Mach-O files with one __text each: x86-64 code shorter than a record's
\* worth of four bytes; PUSH and a CALL; a MOV cut off by the end of the
\* section; AArch64 code of two words; of two words and two stray bytes; of
\* three bytes; another CPU type; x86-64 code that is the first byte of a
\* two-byte opcode
LoopProbes ==
    << MachO("CPU_TYPE_X86_64", FALSE,
             << Section(<<"_","_","t","e","x","t">>, 2, <<4096, 0, 0, 0>>, <<144, 195>>) >>),
       MachO("CPU_TYPE_X86_64", FALSE,
             << Section(<<"_","_","t","e","x","t">>, 6, <<4096, 0, 0, 0>>, <<85, 232, 251, 255, 255, 255>>) >>),
       MachO("CPU_TYPE_X86_64", FALSE,
             << Section(<<"_","_","t","e","x","t">>, 4, <<4096, 0, 0, 0>>, <<72, 153, 184, 1>>) >>),
       MachO("CPU_TYPE_ARM64", FALSE,
             << Section(<<"_","_","t","e","x","t">>, 8, <<4096, 0, 0, 0>>, BytesOf(W_STP) \o BytesOf(W_RET)) >>),
       MachO("CPU_TYPE_ARM64", FALSE,
             << Section(<<"_","_","t","e","x","t">>, 10, <<4096, 0, 0, 0>>,
                        BytesOf(W_BL) \o BytesOf(W_RET) \o <<1, 2>>) >>),
       MachO("CPU_TYPE_ARM64", FALSE,
             << Section(<<"_","_","t","e","x","t">>, 3, <<4096, 0, 0, 0>>, <<192, 3, 95>>) >>),
       MachO("CPU_TYPE_POWERPC", FALSE,
             << Section(<<"_","_","t","e","x","t">>, 4, <<4096, 0, 0, 0>>, BytesOf(W_RET)) >>),
       MachO("CPU_TYPE_X86_64", FALSE,
             << Section(<<"_","_","t","e","x","t">>, 1, <<4096, 0, 0, 0>>, <<15>>) >>) >>

NumLoopFiles == 7

LoopFiles == Prefix(LoopProbes, NumLoopFiles)

\* what may lie behind the code buffer: zeroes, or bytes that continue an
\* instruction cut off by the end of the buffer
HeapTails == {<<0, 0, 0, 0, 0>>, <<133, 1, 0, 0, 0>>}

\* ends of the requested ranges, as distances from code_base_addr
RangeOffsets == {-4, 0, 2, 4, 6, 9}

RangeAddr(k) ==
    IF k < 0 THEN Sub64(ctx.code_base_addr, U64OfNat(-k))
    ELSE Add64(ctx.code_base_addr, U64OfNat(k))

NoLoop ==
    [pc |-> "idle", fn |-> "none", end_offset |-> 0,
     start_addr |-> Zero64, end_addr |-> Zero64,
     started |-> FALSE, iterations |-> 0, overrun |-> FALSE, ran |-> FALSE]

\* memo after a step s of the call fn
Stepped(fn, start_addr, end_addr, s) ==
    [pc |-> s.pc, fn |-> fn, end_offset |-> s.end_offset,
     start_addr |-> start_addr, end_addr |-> end_addr,
     started |-> s.pc = "loop", iterations |-> 0, overrun |-> FALSE, ran |-> TRUE]

InitLoop ==
    /\ \E m \in LoopFiles : ctx = disasm_create(m)
    /\ bytes = W_BL
    /\ address = Zero64
    /\ ctxarg = NoCall
    /\ inst = ZeroInst
    /\ ret = NoReturn
    /\ memo = NoLoop
    /\ ScanIdle

\* disasm_load_section(ctx, "__text") between two calls of the driver
LoopLoad ==
    /\ memo.pc = "idle"
    /\ \E ok \in BOOLEAN, after \in HeapTails :
          \E r \in {disasm_load_section(ctx, FALSE, Name(<<"_","_","t","e","x","t">>), ok, after)} :
              /\ ctx' = r.ctx
              /\ ret' = [Return("disasm_load_section", FALSE, r.ret)
                          EXCEPT !.section_name = Name(<<"_","_","t","e","x","t">>), !.malloc_ok = ok]
              /\ memo' = [NoLoop EXCEPT !.ran = memo.ran]
    /\ UNCHANGED <<bytes, address, ctxarg, inst>>
    /\ UNCHANGED scanvars

\* disasm_all(ctx or NULL) is entered, the one call of the driver on the
\* context
AllBegin ==
    /\ memo.pc = "idle" /\ ~memo.ran
    /\ \E null \in BOOLEAN, malloc_ok \in BOOLEAN :
          \E s \in {disasm_all_begin(ctx, null, malloc_ok)} :
              /\ ctx' = s.ctx
              /\ ret' = Return("disasm_all", null, s.value)
              /\ memo' = Stepped("disasm_all", Zero64, Zero64, s)
    /\ UNCHANGED <<bytes, address, ctxarg, inst>>
    /\ UNCHANGED scanvars

\* disasm_range(ctx or NULL, start_addr, end_addr) is entered
RangeBegin ==
    /\ memo.pc = "idle" /\ ~memo.ran
    /\ \E null \in BOOLEAN, malloc_ok \in BOOLEAN, i \in RangeOffsets, j \in RangeOffsets :
          \E s \in {disasm_range_begin(ctx, null, RangeAddr(i), RangeAddr(j), malloc_ok)} :
              /\ ctx' = s.ctx
              /\ ret' = Return("disasm_range", null, s.value)
              /\ memo' = Stepped("disasm_range", RangeAddr(i), RangeAddr(j), s)
    /\ UNCHANGED <<bytes, address, ctxarg, inst>>
    /\ UNCHANGED scanvars

\* what the loop condition and the growth of the vector leave
LoopTested(realloc_ok) ==
    IF memo.fn = "disasm_all" THEN disasm_all_test(ctx, memo.end_offset, realloc_ok)
    ELSE disasm_range_test(ctx, memo.end_offset, realloc_ok)

\* the loop condition, and realloc when the vector is full
LoopTest ==
    /\ memo.pc = "loop"
    /\ \E realloc_ok \in BOOLEAN :
          \E s \in {LoopTested(realloc_ok)} :
              /\ ctx' = s.ctx
              /\ ret' = [ret EXCEPT !.value = s.value]
              /\ memo' = [memo EXCEPT !.pc = s.pc,
                                      !.iterations = IF s.pc = "call" THEN @ + 1 ELSE @]
    /\ UNCHANGED <<bytes, address, ctxarg, inst>>
    /\ UNCHANGED scanvars

\* the decoder wrote a record where the vector's block has no room for it
WritesBehind(r) == r.ret /\ ctx.instruction_count >= ctx.instructions.room

\* disasm_instruction(ctx, &instructions[instruction_count]) and the rest of
\* the iteration; a write behind the block either goes unnoticed or ends
\* the process
LoopCall ==
    /\ memo.pc = "call"
    /\ \E r \in {disasm_instruction(ctx, FALSE, StaleInst)} :
          \E s \in {loop_call(ctx, r, memo.end_offset)} :
              \E crash \in {FALSE, WritesBehind(r)} :
                  /\ ctx' = s.ctx
                  /\ ret' = [ret EXCEPT !.value = s.value]
                  /\ memo' = [memo EXCEPT !.pc = IF crash THEN "crashed" ELSE s.pc,
                                          !.overrun = @ \/ WritesBehind(r)]
    /\ UNCHANGED <<bytes, address, ctxarg, inst>>
    /\ UNCHANGED scanvars

NextLoop == LoopLoad \/ AllBegin \/ RangeBegin \/ LoopTest \/ LoopCall

SpecLoop == InitLoop /\ [][NextLoop]_vars

\* C21: in disasm_all and disasm_range, for either architecture and any
\* code size, whenever disasm_instruction is called on
\* instructions[instruction_count] the capacity is at least 1 and the count is
\* below it; no record is written behind the vector's block; and a vector
\* that is not NULL has room for instruction_capacity records.
Claim_C21 ==
    /\ memo.pc = "call" =>
          /\ ctx.instruction_capacity >= 1
          /\ ctx.instruction_count < ctx.instruction_capacity
    /\ ~memo.overrun
    /\ ~ctx.instructions.null => ctx.instructions.room >= ctx.instruction_capacity

\* code_base_addr + code_size
SectionEnd == Add64(ctx.code_base_addr, U64OfNat(ctx.code_size))

\* min(end_addr, code_base_addr + code_size) of the last disasm_range call
RangeLimit == IF Less64(memo.end_addr, SectionEnd) THEN memo.end_addr ELSE SectionEnd

\* the record lies inside the requested range clipped to the section
InsideRange(r) ==
    /\ ~Less64(r.address, memo.start_addr)
    /\ ~Less64(RangeLimit, Add64(r.address, U64OfNat(r.length)))

\* the range of the last disasm_range call is empty or starts outside the
\* loaded section
RangeRejected ==
    \/ ~Less64(memo.start_addr, memo.end_addr)
    \/ Less64(memo.start_addr, ctx.code_base_addr)
    \/ ~Less64(memo.start_addr, SectionEnd)

\* C22: every record disasm_range(start_addr, end_addr) appends has
\* address >= start_addr and address + length <= min(end_addr,
\* code_base_addr + code_size); the call returns 0 and appends nothing when
\* start_addr >= end_addr or start_addr lies outside the section.
Claim_C22 ==
    (memo.fn = "disasm_range" /\ ~ret.null) =>
        /\ memo.started =>
              \A i \in 1..Len(ctx.instructions.recs) : InsideRange(ctx.instructions.recs[i])
        /\ RangeRejected => (~memo.started /\ ret.value = 0)

\* a call that was entered runs on: the loop condition and the call of
\* disasm_instruction are steps of sequential code.  LoopCall is enabled
\* exactly when memo.pc = "call" and every LoopCall step leaves that
\* position, so its weak fairness is written as the position being left
\* again and again.
SpecLoopFair == SpecLoop /\ WF_vars(LoopTest) /\ []<>(memo.pc # "call")

\* what an iteration that does not break adds to current_offset: 4 on
\* AArch64, the length of the record just appended on x86-64
Advance(c) ==
    IF c.arch = "ARCH_ARM64" THEN 4 ELSE c.instructions.recs[c.instruction_count].length

\* an iteration breaks, returns, or moves the cursor forward by the length
\* of the instruction
Progress ==
    LoopCall =>
        \/ memo'.pc # "loop"
        \/ /\ Advance(ctx') >= 1
           /\ ctx'.current_offset = ctx.current_offset + Advance(ctx')

\* C23: the sequential decode loop terminates on every code buffer and
\* either architecture: each iteration of disasm_all / disasm_range breaks or
\* strictly increases current_offset (by 4 on AArch64, by the reported
\* length >= 1 on x86-64), no call begins more than code_size iterations,
\* and every call that entered its loop leaves it.
Thm_C23 ==
    /\ [][Progress]_vars
    /\ [](memo.iterations <= ctx.code_size)
    /\ (memo.pc \in {"loop", "call"}) ~> (memo.pc \in {"idle", "crashed"})

\* disasm_all has returned from an x86-64 section of six bytes after two
\* iterations, a PUSH of one byte and a CALL of five
Witness_C23 ==
    /\ memo.fn = "disasm_all" /\ memo.pc = "idle" /\ memo.iterations = 2
    /\ ctx.arch = "ARCH_X86_64" /\ ctx.code_size = 6
    /\ ctx.current_offset = 6
    /\ ctx.instruction_count = 2
    /\ ctx.instructions.recs[1].mnemonic = <<"P","U","S","H">>
    /\ ctx.instructions.recs[1].length = 1
    /\ ctx.instructions.recs[2].mnemonic = <<"C","A","L","L">>
    /\ ctx.instructions.recs[2].length = 5
    /\ ret = Return("disasm_all", FALSE, 2)

(***************************************************************************)
(* The bracketed method scan on files that hold one hit "x[content]".       *)
(* scenario holds the hit and the result the scan starts from.              *)
(***************************************************************************)
\* the text between the brackets: a class and a selector; a category on a
\* class the result has, and on one it lacks; no space; no selector; no
\* class specification; a category without a class; a line feed inside the
\* selector; the longest text the 200-byte window holds, and one byte more;
\* empty parentheses; an unclosed parenthesis
ContentProbes ==
    { <<"F","o","o"," ","t","i","c","k">>, <<"F","o","o","(","B","a","r",")"," ","t","i","c","k">>, <<"Z","e","d","(","B","a","r",")"," ","r","u","n">>, <<"F","o","o">>, <<"F","o","o"," ">>, <<" ","t","i","c","k">>,
      <<"(","B","a","r",")"," ","t","i","c","k">>, <<"F","o","o"," ","t","i">> \o <<LF>> \o <<"c","k">>, <<"A"," ">> \o Sel(197), <<"A"," ">> \o Sel(198),
      <<"F","o","o","(",")"," ","t","i","c","k">>, <<"F","o","o","(","B","a","r"," ","t","i","c","k">> }

\* what follows the text: the closing bracket, or the end of the string
Closers == {<<"]">>, <<>>}

\* results the scan starts from: empty; class Foo with the instance method
\* tick and its category Bar
FooBar ==
    class_dump_add_category_with_class(
        class_dump_add_method_to_class(add_class_to_result(EmptyResult, <<"F","o","o">>),
                                       1, <<"t","i","c","k">>, FALSE),
        <<"F","o","o">>, <<"B","a","r">>)

StartResults == {EmptyResult, FooBar}

MethodHits ==
    [sign : {"-", "+"}, content : ContentProbes, closer : Closers,
     lead : {<<>>, <<"x","x">>}, pre : StartResults]

HitBinary(h) == h.lead \o <<h.sign, "[">> \o h.content \o h.closer \o <<NUL>>

InitMethod ==
    /\ DecoderIdle
    /\ binary = <<>>
    /\ beyond = <<>>
    /\ result = EmptyResult
    /\ phase = "idle"
    /\ scenario = NoScenario
    /\ header = NoHeader
    /\ stale = {}

\* a file with one hit is mapped, and a result is at hand
MapHit ==
    /\ phase = "idle"
    /\ \E h \in MethodHits :
          /\ binary' = HitBinary(h)
          /\ result' = h.pre
          /\ scenario' = h
    /\ phase' = "mapped"
    /\ UNCHANGED <<decvars, beyond, header, stale>>

\* class_dump_scan_methods on the mapped file
ScanHit ==
    /\ phase = "mapped"
    /\ result' = class_dump_scan_methods(Mem, Size, result)
    /\ phase' = "scanned"
    /\ UNCHANGED <<decvars, binary, beyond, scenario, header, stale>>

NextMethod == MapHit \/ ScanHit

SpecMethod == InitMethod /\ [][NextMethod]_vars

\* the hit read as "x[Spec sel]": the first space, Spec, sel
HitSpace == strchr(scenario.content, " ", 1)

HitSpec == SubSeq(scenario.content, 1, HitSpace - 1)

HitSel == SubSeq(scenario.content, HitSpace + 1, Len(scenario.content))

\* the hit has a ']' within 200 bytes
HitClosed == scenario.closer = <<"]">> /\ Len(scenario.content) < 200

\* no ']' within 200 bytes, no space, or an empty selector
HitDropped == ~HitClosed \/ HitSpace = 0 \/ HitSel = <<>>

\* Spec is "Class(Category)" with a non-empty Category
HitOpen == strchr(HitSpec, "(", 1)

HitHasCategory ==
    /\ HitOpen # 0
    /\ HitSpec[Len(HitSpec)] = ")"
    /\ Len(HitSpec) - HitOpen >= 2

HitClass == IF HitOpen = 0 THEN HitSpec ELSE SubSeq(HitSpec, 1, HitOpen - 1)

HitCategory == SubSeq(HitSpec, HitOpen + 1, Len(HitSpec) - 1)

\* the method set a hit with this sign goes to
MethodSet(entity, sign) ==
    IF sign = "+" THEN entity.classMethods ELSE entity.instanceMethods

InList(list, value) == \E i \in 1..Len(list) : list[i] = value

\* the two method sets of the class in a result, empty when it has no such
\* class
ClassMethodSets(res, name) ==
    IF class_dump_find_class(res, name) = 0 THEN << <<>>, <<>> >>
    ELSE <<res.classes[class_dump_find_class(res, name)].instanceMethods,
           res.classes[class_dump_find_class(res, name)].classMethods>>

\* the hit went to the category: the class exists, with the method sets it
\* had; the category exists and has the selector in the set of the sign
RoutedToCategory ==
    /\ class_dump_find_class(result, HitClass) # 0
    /\ ClassMethodSets(result, HitClass) = ClassMethodSets(scenario.pre, HitClass)
    /\ class_dump_find_category(result, HitClass, HitCategory) # 0
    /\ InList(MethodSet(result.categories[class_dump_find_category(result, HitClass, HitCategory)],
                        scenario.sign),
              HitSel)

\* the hit went to the class: it exists and has the selector in the set of
\* the sign, and no category was created
RoutedToClass ==
    /\ class_dump_find_class(result, HitClass) # 0
    /\ InList(MethodSet(result.classes[class_dump_find_class(result, HitClass)], scenario.sign),
              HitSel)
    /\ result.categories = scenario.pre.categories

\* C24 as stated: every hit is dropped for one of the three reasons, or
\* routed to the category when Spec is "Class(Category)", or to the class
\* when Spec has no parenthesis.
Claim_C24 ==
    phase = "scanned" =>
        IF HitDropped THEN result = scenario.pre
        ELSE IF HitHasCategory THEN RoutedToCategory
        ELSE IF HitOpen = 0 THEN RoutedToClass
        ELSE TRUE

\* the text between the brackets holds no NUL, CR or LF
HitPlain == \A i \in 1..Len(scenario.content) : scenario.content[i] \notin {NUL, CR, LF}

\* C24 amended: the same for hits whose text holds no NUL, CR or LF and
\* whose class name is not empty; a hit with an empty class name changes
\* nothing.
Thm_C24 ==
    (phase = "scanned" /\ HitPlain) =>
        IF HitDropped \/ HitClass = <<>> THEN result = scenario.pre
        ELSE IF HitHasCategory THEN RoutedToCategory
        ELSE IF HitOpen = 0 THEN RoutedToClass
        ELSE TRUE

\* "+[Zed(Bar) run]" scanned into an empty result: class Zed without
\* methods and category Bar on Zed with the class method run
Witness_C24 ==
    /\ phase = "scanned"
    /\ scenario.sign = "+" /\ scenario.content = <<"Z","e","d","(","B","a","r",")"," ","r","u","n">>
    /\ scenario.pre = EmptyResult
    /\ HitHasCategory /\ RoutedToCategory
    /\ Len(result.classes) = 1
    /\ result.classes[1].className = <<"Z","e","d">>
    /\ Len(result.categories) = 1
    /\ result.categories[1].classMethods = << <<"r","u","n">> >>
    /\ result.categories[1].instanceMethods = <<>>

\* the names a result holds: of classes, of categories and their classes, of
\* protocols, and the ivars of the classes
RecordedNames ==
    {result.classes[i].className : i \in 1..Len(result.classes)}
    \cup {result.categories[i].categoryName : i \in 1..Len(result.categories)}
    \cup {result.categories[i].className : i \in 1..Len(result.categories)}
    \cup {result.protocols[i].protocolName : i \in 1..Len(result.protocols)}
    \cup UNION {{result.classes[i].ivars[j] : j \in 1..Len(result.classes[i].ivars)} :
                   i \in 1..Len(result.classes)}

\* C25: every name the typed-prefix and ivar passes record holds no NUL, CR
\* or LF and is at most 255 characters long, also when more than 255 other
\* bytes follow the prefix.
Claim_C25 ==
    phase # "idle" =>
        \A name \in RecordedNames :
            /\ Len(name) <= 255
            /\ \A i \in 1..Len(name) : name[i] \notin {NUL, CR, LF}

(***************************************************************************)
(* The five passes of class_dump_binary in any order, each once, then the   *)
(* fallback test.  scenario.done holds the passes that have run.            *)
(***************************************************************************)
\* a file whose classes are created by the ivar and the method pass only
LatePassImage ==
    [binary |-> <<"_","O","B","J","C","_","I","V","A","R","_","$","_","B","a","z",".","x">> \o <<NUL>> \o <<"+","[","Q","u","x","(","C","a","t",")"," ","g","o","]">> \o <<NUL>>
                \o <<"-","[","B","a","z"," ","r","u","n","]">> \o <<NUL>> \o <<"_","O","B","J","C","_","C","A","T","E","G","O","R","Y","_","$","_","Q","u","x","_","$","_","C","a","t">> \o <<NUL>>,
     beyond |-> <<>>]

OrderImages ==
    {LatePassImage} \cup {ImageProbes[i] : i \in 1..NumImages}

PassNames == {"classes", "categories", "protocols", "ivars", "methods"}

InitOrder ==
    /\ DecoderIdle
    /\ \E image \in OrderImages : binary = image.binary /\ beyond = image.beyond
    /\ result = EmptyResult
    /\ phase = "idle"
    /\ scenario = [done |-> {}]
    /\ header = NoHeader
    /\ stale = {}

\* the pass has not run yet; it runs now
Runs(pass) ==
    /\ phase = "idle"
    /\ pass \notin scenario.done
    /\ scenario' = [done |-> scenario.done \cup {pass}]
    /\ UNCHANGED <<decvars, binary, beyond, phase, header, stale>>

PassClasses == Runs("classes") /\ result' = class_dump_analyze_classes(Mem, Size, result)

PassCategories == Runs("categories") /\ result' = class_dump_analyze_categories(Mem, Size, result)

PassProtocols == Runs("protocols") /\ result' = class_dump_analyze_protocols(Mem, Size, result)

PassIvars == Runs("ivars") /\ result' = class_dump_scan_ivars(Mem, Size, result)

PassMethods == Runs("methods") /\ result' = class_dump_scan_methods(Mem, Size, result)

\* lines 331-334: after the five passes, the fallback when nothing was found
PassFallback ==
    /\ phase = "idle"
    /\ scenario.done = PassNames
    /\ result' = IF IsEmptyResult(result) THEN analyze_strings_for_objc(Mem, Size, result)
                 ELSE result
    /\ phase' = IF IsEmptyResult(result) THEN "fallback" ELSE "scanned"
    /\ UNCHANGED <<decvars, binary, beyond, scenario, header, stale>>

NextOrder ==
    \/ PassClasses \/ PassCategories \/ PassProtocols \/ PassIvars \/ PassMethods
    \/ PassFallback

SpecOrder == InitOrder /\ [][NextOrder]_vars

\* the strings of a list, as a set
Members(list) == {list[i] : i \in 1..Len(list)}

\* a result without the positions in its vectors: the classes by name with
\* their ivar and method sets, the categories by (class, category) with
\* their method sets, the protocols by name
Unordered(res) ==
    [classes |-> {[className |-> c.className, ivars |-> Members(c.ivars),
                   instanceMethods |-> Members(c.instanceMethods),
                   classMethods |-> Members(c.classMethods)] :
                      c \in Members(res.classes)},
     categories |-> {[className |-> k.className, categoryName |-> k.categoryName,
                      instanceMethods |-> Members(k.instanceMethods),
                      classMethods |-> Members(k.classMethods)] :
                         k \in Members(res.categories)},
     protocols |-> {p.protocolName : p \in Members(res.protocols)}]

\* C26: the passes run in any permutation, fallback last, leave the same
\* class names, (class, category) pairs and protocol names, and for each
\* entity the same ivar, instance-method and class-method sets, as
\* class_dump_binary's order leaves.
Thm_C26 ==
    phase # "idle" =>
        \E expected \in {class_dump_binary(Mem, Size).result} :
            Unordered(result) = Unordered(expected)

\* methods, ivars and categories were scanned before the classes, on the
\* file whose classes only the ivar and the method pass create, and the
\* vectors hold the classes in another order than class_dump_binary's
Witness_C26 ==
    /\ phase = "scanned"
    /\ binary = LatePassImage.binary
    /\ Len(result.classes) = 2
    /\ result.classes[1].className = <<"Q","u","x">>
    /\ result.classes[2].className = <<"B","a","z">>
    /\ result.classes[2].ivars = << <<"x">> >>
    /\ result.classes[2].instanceMethods = << <<"r","u","n">> >>
    /\ result # class_dump_binary(Mem, Size).result

\* the indices strncmp(m + q, pattern, strlen(pattern)) reads: up to the
\* first byte that differs from the pattern
StrncmpReads(m, q, pattern) ==
    {q + j : j \in {j \in 0..(Len(pattern) - 1) :
                       \A i \in 0..(j - 1) : ByteAt(m, q + i) = pattern[i + 1]}}

\* the indices class_dump_safe_strndup(m + from, max_len) reads: the name
\* and the byte that ends it
NameReads(m, from, max_len) ==
    IF max_len = 0 THEN {}
    ELSE IF Len(class_dump_safe_strndup(m, from, max_len)) < max_len
    THEN from..(from + Len(class_dump_safe_strndup(m, from, max_len)))
    ELSE from..(from + max_len - 1)

\* the indices one typed-prefix pass reads outside memchr (lines 726-733)
PrefixPassReads(m, size, pattern) ==
    UNION {StrncmpReads(m, q, pattern)
             \cup (IF PrefixAt(m, q, pattern)
                   THEN NameReads(m, q + Len(pattern),
                                  NameRemaining(m, size, q + Len(pattern)))
                   ELSE {}) :
           q \in Visited(m, size, pattern[1], Len(pattern))}

\* the indices the fallback selector scan reads outside memchr (lines
\* 426-438)
FallbackReads(m, size) ==
    UNION {UNION {StrncmpReads(m, q, stringPatterns[p]) :
                     q \in {q \in 0..(size - 1) : m[q + 1] = stringPatterns[p][1]}} :
           p \in 1..Len(stringPatterns)}

\* C27: during the class, category and protocol prefix passes and the
\* fallback selector scan every byte read lies at an index below the size of
\* the binary, also when the last bytes of the buffer are a proper prefix of
\* the pattern compared.
Claim_C27 ==
    phase # "idle" =>
        \A i \in PrefixPassReads(Mem, Size, <<"_","O","B","J","C","_","C","L","A","S","S","_","$","_">>)
                 \cup PrefixPassReads(Mem, Size, <<"_","O","B","J","C","_","C","A","T","E","G","O","R","Y","_","$","_">>)
                 \cup PrefixPassReads(Mem, Size, <<"_","O","B","J","C","_","P","R","O","T","O","C","O","L","_","$","_">>)
                 \cup (IF phase = "fallback" THEN FallbackReads(Mem, Size) ELSE {}) :
            i < Size

(***************************************************************************)
(* ClassDumpC.c: the file header, class_dump_generate_header, and its       *)
(* string builder                                                           *)
(***************************************************************************)
\* class_dump_builder_init(&builder, 8192)
BuilderCapacity == 8192

\* new_capacity of class_dump_builder_append: doubled until the text fits
RECURSIVE Doubled(_, _)
Doubled(capacity, needed) ==
    IF capacity < needed THEN Doubled(capacity * 2, needed) ELSE capacity

class_dump_builder_init(initial_capacity, malloc_ok) ==
    [null |-> ~malloc_ok, data |-> <<>>, length |-> 0,
     capacity |-> IF malloc_ok THEN initial_capacity ELSE 0]

\* text <<>> is NULL or "": the builder is left as it is in both cases, and
\* when realloc fails
class_dump_builder_append(builder, text, realloc_ok) ==
    IF text = <<>> THEN builder
    ELSE IF builder.length + Len(text) + 1 > builder.capacity
    THEN IF realloc_ok
         THEN [null |-> FALSE, data |-> builder.data \o text,
               length |-> builder.length + Len(text),
               capacity |-> Doubled(IF builder.capacity = 0 THEN 4096
                                    ELSE builder.capacity * 2,
                                    builder.length + Len(text) + 1)]
         ELSE builder
    ELSE [builder EXCEPT !.data = @ \o text, !.length = @ + Len(text)]

\* the appends of texts in order, their return values ignored
RECURSIVE AppendAll(_, _, _)
AppendAll(builder, texts, realloc_ok) ==
    IF texts = <<>> THEN builder
    ELSE AppendAll(class_dump_builder_append(builder, Head(texts), realloc_ok),
                   Tail(texts), realloc_ok)

\* the entities of a result, as <<kind, index>>
EntitiesOf(res) ==
    {<<"class", i>> : i \in 1..Len(res.classes)}
    \cup {<<"category", i>> : i \in 1..Len(res.categories)}
    \cup {<<"protocol", i>> : i \in 1..Len(res.protocols)}

\* the text of one entity's emitter
EntityText(res, e) ==
    CASE e[1] = "class" -> class_dump_generate_class_header(res.classes[e[2]])
      [] e[1] = "category" -> class_dump_generate_category_header(res.categories[e[2]])
      [] OTHER -> class_dump_generate_protocol_header(res.protocols[e[2]])

EntityCapacity(e) == IF e[1] = "class" THEN ClassHeaderCapacity ELSE EntityHeaderCapacity

\* what the three loops append: NULL (<<>>) for an emitter whose malloc
\* failed, the entities of lost
EmittedTexts(res, kind, count, lost) ==
    [i \in 1..count |-> IF <<kind, i>> \in lost THEN <<>> ELSE EntityText(res, <<kind, i>>)]

\* class_dump_generate_header: found is class_dump_binary's result not being
\* NULL, res that result; the set of outcomes, as for Emitted, when an
\* emitter writes past its buffer
class_dump_generate_header(binaryPath, found, res, lost, malloc_ok, realloc_ok) ==
    IF binaryPath = <<>> \/ ~found \/ ~malloc_ok
    THEN {[kind |-> "file", ret |-> <<>>, overrun |-> FALSE, path |-> binaryPath]}
    ELSE LET texts == << <<"/","/">> \o <<LF>>, <<"/","/"," "," ","G","e","n","e","r","a","t","e","d"," ","b","y"," ","R","e","D","y","n","e"," ","C","l","a","s","s"," ","D","u","m","p">> \o <<LF>>,
                        <<"/","/"," "," ","B","i","n","a","r","y",":"," ">>, binaryPath, <<LF>>, <<"/","/">> \o <<LF, LF>>,
                        <<"#","i","m","p","o","r","t"," ","<","F","o","u","n","d","a","t","i","o","n","/","F","o","u","n","d","a","t","i","o","n",".","h",">">> \o <<LF>>,
                        <<"#","i","m","p","o","r","t"," ","<","U","I","K","i","t","/","U","I","K","i","t",".","h",">">> \o <<LF, LF>> >>
                      \o EmittedTexts(res, "class", Len(res.classes), lost)
                      \o EmittedTexts(res, "category", Len(res.categories), lost)
                      \o EmittedTexts(res, "protocol", Len(res.protocols), lost)
             builder == AppendAll(class_dump_builder_init(BuilderCapacity, TRUE),
                                  texts, realloc_ok)
         IN  IF \E e \in EntitiesOf(res) \ lost :
                    Len(EntityText(res, e)) + 1 > EntityCapacity(e)
             THEN {[kind |-> "file", ret |-> builder.data, overrun |-> TRUE, path |-> binaryPath],
                   [kind |-> "file", ret |-> <<>>, overrun |-> TRUE, path |-> binaryPath]}
             ELSE {[kind |-> "file", ret |-> builder.data, overrun |-> FALSE, path |-> binaryPath]}

(***************************************************************************)
(* The emitters on runtime models a caller built and on files               *)
(***************************************************************************)
BuiltClass(name, protocols, properties, ivars, instanceMethods, classMethods) ==
    [className |-> name, superclassName |-> <<"N","S","O","b","j","e","c","t">>,
     protocols |-> protocols, properties |-> properties,
     ivars |-> ivars, instanceMethods |-> instanceMethods, classMethods |-> classMethods,
     isSwift |-> FALSE, isMetaClass |-> FALSE]

BuiltCategory(class_name, category_name, properties, instanceMethods, classMethods) ==
    [categoryName |-> category_name, className |-> class_name,
     protocols |-> <<>>, properties |-> properties,
     instanceMethods |-> instanceMethods, classMethods |-> classMethods]

BuiltProtocol(name, protocols, methods) ==
    [protocolName |-> name, protocols |-> protocols, methods |-> methods]

\* runtime models: a class with every list filled; with properties only;
\* with ivars only; two of each entity; categories and protocols only; empty
HeaderModels ==
    {[classes |-> <<BuiltClass(<<"F","o","o">>, <<<<"N","S","C","o","p","y","i","n","g">>, <<"N","S","C","o","d","i","n","g">>>>, <<<<"t","i","t","l","e">>>>,
                               <<<<"c","o","u","n","t","e","r">>>>, <<<<"t","i","c","k">>>>, <<<<"m","a","k","e">>>>)>>,
      categories |-> <<>>, protocols |-> <<>>],
     [classes |-> <<BuiltClass(<<"F","o","o">>, <<>>, <<<<"t","i","t","l","e">>, <<"s","i","z","e">>>>, <<>>, <<<<"t","i","c","k">>>>, <<>>)>>,
      categories |-> <<BuiltCategory(<<"F","o","o">>, <<"B","a","r">>, <<<<"t","i","t","l","e">>>>, <<<<"t","i","c","k">>>>, <<<<"m","a","k","e">>>>)>>,
      protocols |-> <<>>],
     [classes |-> <<BuiltClass(<<"F","o","o">>, <<>>, <<>>, <<<<"c","o","u","n","t","e","r">>, <<"s","i","z","e">>>>, <<>>, <<<<"m","a","k","e">>>>)>>,
      categories |-> <<>>,
      protocols |-> <<BuiltProtocol(<<"N","S","C","o","p","y","i","n","g">>, <<<<"N","S","O","b","j","e","c","t">>>>, <<<<"c","o","p","y">>>>)>>],
     [classes |-> <<BuiltClass(<<"F","o","o">>, <<>>, <<>>, <<<<"c","o","u","n","t","e","r">>>>, <<<<"t","i","c","k">>>>, <<>>),
                    BuiltClass(<<"Z","e","d">>, <<>>, <<<<"t","i","t","l","e">>>>, <<<<"s","i","z","e">>>>, <<>>, <<>>)>>,
      categories |-> <<BuiltCategory(<<"F","o","o">>, <<"B","a","r">>, <<>>, <<<<"t","i","c","k">>>>, <<>>),
                       BuiltCategory(<<"Z","e","d">>, <<"B","a","z">>, <<>>, <<>>, <<>>)>>,
      protocols |-> <<BuiltProtocol(<<"N","S","C","o","p","y","i","n","g">>, <<>>, <<>>),
                      BuiltProtocol(<<"N","S","C","o","d","i","n","g">>, <<>>, <<<<"e","n","c","o","d","e">>>>)>>],
     [classes |-> <<>>,
      categories |-> <<BuiltCategory(<<"F","o","o">>, <<"B","a","r">>, <<>>, <<>>, <<<<"m","a","k","e">>>>)>>,
      protocols |-> <<BuiltProtocol(<<"N","S","C","o","d","i","n","g">>, <<>>, <<>>)>>],
     EmptyResult}

\* a file with two classes, two categories, two protocols, an ivar and
\* methods of both kinds, the categories and protocols in front
TwoOfEach ==
    <<"_","O","B","J","C","_","P","R","O","T","O","C","O","L","_","$","_","N","S","C","o","p","y","i","n","g">> \o <<NUL>> \o <<"_","O","B","J","C","_","C","A","T","E","G","O","R","Y","_","$","_","F","o","o","_","$","_","B","a","r">> \o <<NUL>>
    \o <<"_","O","B","J","C","_","C","L","A","S","S","_","$","_","F","o","o">> \o <<NUL>> \o <<"_","O","B","J","C","_","C","A","T","E","G","O","R","Y","_","$","_","Z","e","d","_","$","_","B","a","z">> \o <<NUL>>
    \o <<"_","O","B","J","C","_","C","L","A","S","S","_","$","_","Z","e","d">> \o <<NUL>> \o <<"_","O","B","J","C","_","P","R","O","T","O","C","O","L","_","$","_","N","S","C","o","d","i","n","g">> \o <<NUL>>
    \o <<"_","O","B","J","C","_","I","V","A","R","_","$","_","F","o","o",".","c","o","u","n","t","e","r">> \o <<NUL>> \o <<"-","[","F","o","o"," ","t","i","c","k","]">> \o <<NUL>>
    \o <<"+","[","F","o","o"," ","m","a","k","e","]">> \o <<NUL>> \o <<"-","[","Z","e","d","(","B","a","z",")"," ","r","u","n","]">> \o <<NUL>>

\* files: two of each entity; every pattern twice; a name too long for the
\* category emitter; a file without names; selectors only
HeaderFiles ==
    {TwoOfEach, DupBinary, <<"M","Z">> \o <<NUL, LF>> \o <<"t","e","x","t">>,
     <<"i","n","i","t">> \o <<NUL>> \o <<"d","e","a","l","l","o","c">>} \cup LongFiles

\* binaryPath: a path, and NULL
HeaderPaths == {<<"/","t","m","p","/","a">>, <<>>}

InitHeader ==
    /\ DecoderIdle
    /\ scenario = NoScenario
    /\ binary \in HeaderFiles
    /\ beyond = <<>>
    /\ result \in HeaderModels
    /\ phase = "built"
    /\ header = NoHeader
    /\ stale = {}

\* class_dump_generate_header(binaryPath) on the file; an emitter's malloc
\* fails for at most one entity
GenerateHeader ==
    /\ header.kind # "file"
    /\ \E res \in {class_dump_binary(Mem, Size).result} :
       \E binaryPath \in HeaderPaths, found, malloc_ok, realloc_ok \in BOOLEAN :
       \E lost \in {{}} \cup {{e} : e \in EntitiesOf(res)} :
          header' \in class_dump_generate_header(binaryPath, found, res, lost,
                                                 malloc_ok, realloc_ok)
    /\ UNCHANGED <<decvars, binary, beyond, result, phase, scenario, stale>>

NextHeader ==
    \/ GenerateHeader
    \/ GenerateClassHeader \/ GenerateCategoryHeader \/ GenerateProtocolHeader

SpecHeader == InitHeader /\ [][NextHeader]_vars

\* the text of the claim's file: the banner and the two #import lines
Preamble(binaryPath) ==
    <<"/","/">> \o <<LF>> \o <<"/","/"," "," ","G","e","n","e","r","a","t","e","d"," ","b","y"," ","R","e","D","y","n","e"," ","C","l","a","s","s"," ","D","u","m","p">> \o <<LF>>
    \o <<"/","/"," "," ","B","i","n","a","r","y",":"," ">> \o binaryPath \o <<LF>> \o <<"/","/">> \o <<LF, LF>>
    \o <<"#","i","m","p","o","r","t"," ","<","F","o","u","n","d","a","t","i","o","n","/","F","o","u","n","d","a","t","i","o","n",".","h",">">> \o <<LF>>
    \o <<"#","i","m","p","o","r","t"," ","<","U","I","K","i","t","/","U","I","K","i","t",".","h",">">> \o <<LF, LF>>

\* "@interface Name : Super <Protos>" and the end of the line
InterfaceLine(c) ==
    <<"@","i","n","t","e","r","f","a","c","e"," ">> \o c.className
    \o (IF c.superclassName # <<>> THEN <<" ",":"," ">> \o c.superclassName ELSE <<>>)
    \o ProtocolList(c.protocols) \o <<LF>>

IvarBlock(c) ==
    IF c.ivars = <<>> THEN <<>>
    ELSE <<"{", LF>> \o Lines(<<" "," "," "," ","i","d"," ">>, c.ivars, <<";", LF>>) \o <<"}", LF>>

PropertyLines(list) == Lines(<<"@","p","r","o","p","e","r","t","y"," ","(","n","o","n","a","t","o","m","i","c",","," ","s","t","r","o","n","g",")"," ","i","d"," ">>, list, <<";", LF>>)

\* a class declaration in the order of the claim
ClassDeclaration(c) ==
    InterfaceLine(c) \o IvarBlock(c) \o PropertyLines(c.properties)
    \o Lines(<<"-"," ","(","v","o","i","d",")">>, c.instanceMethods, <<";", LF>>)
    \o Lines(<<"+"," ","(","v","o","i","d",")">>, c.classMethods, <<";", LF>>)
    \o <<"@","e","n","d">> \o <<LF, LF>>

\* the declarations of the entities of kept, one kind, in vector order
RECURSIVE Declarations(_, _, _, _)
Declarations(res, kind, i, kept) ==
    IF i > Len(CASE kind = "class" -> res.classes [] kind = "category" -> res.categories
                 [] OTHER -> res.protocols)
    THEN <<>>
    ELSE (IF <<kind, i>> \notin kept THEN <<>>
          ELSE CASE kind = "class" -> ClassDeclaration(res.classes[i])
                 [] kind = "category" -> class_dump_generate_category_header(res.categories[i])
                 [] OTHER -> class_dump_generate_protocol_header(res.protocols[i]))
         \o Declarations(res, kind, i + 1, kept)

\* a file in the order of the claim, with the declarations of kept
OrderedFile(binaryPath, res, kept) ==
    Preamble(binaryPath) \o Declarations(res, "class", 1, kept)
    \o Declarations(res, "category", 1, kept) \o Declarations(res, "protocol", 1, kept)

\* a file was generated from the scan of the file
FileGenerated == header.kind = "file" /\ header.ret # <<>>

\* the order of the groups: the generated file is the preamble, then class,
\* then category, then protocol declarations, each group in vector order
\* (an entity is missing when its emitter or the builder got no memory)
FileOrder ==
    FileGenerated =>
        \E res \in {class_dump_binary(Mem, Size).result} :
        \E kept \in SUBSET EntitiesOf(res) :
            header.ret = OrderedFile(header.path, res, kept)

\* C28: the generated header is the preamble, then the class, the category
\* and the protocol declarations, each group in vector order, and a class
\* declaration is the @interface line, then the ivar block, then the
\* property declarations, then the instance methods, then the class
\* methods, then @end
Claim_C28 ==
    /\ FileOrder
    /\ (header.kind = "class" /\ header.ret # <<>>) =>
          \E i \in 1..Len(result.classes) : header.ret = ClassDeclaration(result.classes[i])

(***************************************************************************)
(* C29: the bytes the emitters write                                        *)
(***************************************************************************)
\* bytes a chain of strcpy / strcat calls writes for text: the characters
\* and the terminator
Written(text) == Len(text) + 1

\* C29: for every record of the scan the class emitter writes at most 16384
\* bytes, terminator included, and the category and protocol emitters write
\* at most 8192 bytes
Claim_C29 ==
    phase # "idle" =>
        /\ \A i \in 1..Len(result.classes) :
              Written(class_dump_generate_class_header(result.classes[i])) <= ClassHeaderCapacity
        /\ \A i \in 1..Len(result.categories) :
              Written(class_dump_generate_category_header(result.categories[i]))
                 <= EntityHeaderCapacity
        /\ \A i \in 1..Len(result.protocols) :
              Written(class_dump_generate_protocol_header(result.protocols[i]))
                 <= EntityHeaderCapacity

(***************************************************************************)
(* TypeAnalyzerC.c: symbol tests, name extraction, size estimates           *)
(***************************************************************************)
\* the n-th and later characters of a string: strdup(s + n)
From(s, n) == SubSeq(s, n + 1, Len(s))

c_is_class_symbol(name) ==
    strstr(name, <<"_","O","B","J","C","_","C","L","A","S","S","_","$","_">>) \/ strstr(name, <<"_","T","t","C">>) \/ strstr(name, <<"o","b","j","c","_","c","l","a","s","s">>)

c_is_struct_symbol(name) ==
    strstr(name, <<"s","t","r","u","c","t">>) \/ strstr(name, <<"S","t","r","u","c","t">>) \/ strstr(name, <<"_","s","t","r","u","c","t","_">>)

c_is_enum_symbol(name) ==
    strstr(name, <<"e","n","u","m">>) \/ strstr(name, <<"E","n","u","m">>) \/ strstr(name, <<"_","e","n","u","m","_">>)

c_is_protocol_symbol(name) ==
    strstr(name, <<"p","r","o","t","o","c","o","l">>) \/ strstr(name, <<"P","r","o","t","o","c","o","l">>) \/ strstr(name, <<"_","p","r","o","t","o","c","o","l","_">>)

\* strdup_ok: strdup returned memory; <<>> is NULL and ""
c_extract_class_name(symbolName, strdup_ok) ==
    IF ~strdup_ok THEN <<>>
    ELSE IF strstr(symbolName, <<"_","O","B","J","C","_","C","L","A","S","S","_","$","_">>) THEN From(symbolName, 14)
    ELSE symbolName

c_extract_struct_name(symbolName, strdup_ok) ==
    IF ~strdup_ok THEN <<>>
    ELSE IF strstr(symbolName, <<"_","s","t","r","u","c","t","_">>) THEN From(symbolName, 8)
    ELSE symbolName

c_extract_enum_name(symbolName, strdup_ok) ==
    IF ~strdup_ok THEN <<>>
    ELSE IF strstr(symbolName, <<"_","e","n","u","m","_">>) THEN From(symbolName, 6)
    ELSE symbolName

c_extract_protocol_name(symbolName, strdup_ok) ==
    IF ~strdup_ok THEN <<>>
    ELSE IF strstr(symbolName, <<"_","p","r","o","t","o","c","o","l","_">>) THEN From(symbolName, 10)
    ELSE symbolName

c_estimate_class_size(className) ==
    IF strstr(className, <<"V","i","e","w">>) \/ strstr(className, <<"C","o","n","t","r","o","l","l","e","r">>) THEN 200
    ELSE IF strstr(className, <<"M","o","d","e","l">>) THEN 100
    ELSE IF strstr(className, <<"M","a","n","a","g","e","r">>) THEN 150
    ELSE 64

c_estimate_struct_size(structName) ==
    IF strstr(structName, <<"P","o","i","n","t">>) \/ strstr(structName, <<"S","i","z","e">>) THEN 16
    ELSE IF strstr(structName, <<"R","e","c","t">>) THEN 32
    ELSE IF strstr(structName, <<"R","a","n","g","e">>) THEN 16
    ELSE 24

c_estimate_enum_size(enumName) ==
    IF strstr(enumName, <<"I","n","t">>) \/ strstr(enumName, <<"R","a","w">>) THEN 8 ELSE 4

(***************************************************************************)
(* TypeAnalyzerC.c: c_reconstruct_types_from_binary                         *)
(***************************************************************************)
c_reconstruction_has_name(types, name) ==
    \E i \in 1..Len(types) : types[i].name = name

\* variant: the Swift test in front of the Objective-C test
c_confidence_for_symbol_swift_first(name, category) ==
    IF category = "C_TYPE_CATEGORY_CLASS" /\ (strstr(name, <<"_","T","t","C">>) \/ strstr(name, <<"_","T","t">>))
    THEN 85
    ELSE IF strstr(name, <<"_","O","B","J","C","_","C","L","A","S","S","_","$","_">>) THEN 90
    ELSE IF category \in {"C_TYPE_CATEGORY_ENUM", "C_TYPE_CATEGORY_STRUCT"} THEN 75
    ELSE IF category = "C_TYPE_CATEGORY_PROTOCOL" THEN 70
    ELSE 60

\* the double it returns, in hundredths: 0.9 is 90, 0.85 is 85
c_confidence_for_symbol(name, category) ==
    IF strstr(name, <<"_","O","B","J","C","_","C","L","A","S","S","_","$","_">>) THEN 90
    ELSE IF category = "C_TYPE_CATEGORY_CLASS" /\ (strstr(name, <<"_","T","t","C">>) \/ strstr(name, <<"_","T","t">>))
    THEN 85
    ELSE IF category \in {"C_TYPE_CATEGORY_ENUM", "C_TYPE_CATEGORY_STRUCT"} THEN 75
    ELSE IF category = "C_TYPE_CATEGORY_PROTOCOL" THEN 70
    ELSE 60

c_estimated_size_for_category(name, category) ==
    CASE category = "C_TYPE_CATEGORY_CLASS" -> c_estimate_class_size(name)
      [] category = "C_TYPE_CATEGORY_STRUCT" -> c_estimate_struct_size(name)
      [] category = "C_TYPE_CATEGORY_ENUM" -> c_estimate_enum_size(name)
      [] OTHER -> 0

\* uint32_t capacity = 32
TypesCapacity == 32

\* the if / else-if chain of the loop body
SymbolCategory(name) ==
    IF c_is_class_symbol(name) THEN "C_TYPE_CATEGORY_CLASS"
    ELSE IF c_is_struct_symbol(name) THEN "C_TYPE_CATEGORY_STRUCT"
    ELSE IF c_is_enum_symbol(name) THEN "C_TYPE_CATEGORY_ENUM"
    ELSE IF c_is_protocol_symbol(name) THEN "C_TYPE_CATEGORY_PROTOCOL"
    ELSE "C_TYPE_CATEGORY_UNKNOWN"

\* type_name of the loop body; NULL (<<>>) when no test matched
SymbolTypeName(name, strdup_ok) ==
    IF c_is_class_symbol(name) THEN c_extract_class_name(name, strdup_ok)
    ELSE IF c_is_struct_symbol(name) THEN c_extract_struct_name(name, strdup_ok)
    ELSE IF c_is_enum_symbol(name) THEN c_extract_enum_name(name, strdup_ok)
    ELSE IF c_is_protocol_symbol(name) THEN c_extract_protocol_name(name, strdup_ok)
    ELSE <<>>

\* the loop over sym_ctx->symbols from index i on; strdup fails for the symbol
\* of index strdup_fail, realloc fails when realloc_ok is FALSE
RECURSIVE ReconstructFrom(_, _, _, _, _, _)
ReconstructFrom(symbols, i, types, capacity, strdup_fail, realloc_ok) ==
    IF i > Len(symbols) THEN types
    ELSE IF symbols[i].name = <<>>
    THEN ReconstructFrom(symbols, i + 1, types, capacity, strdup_fail, realloc_ok)
    ELSE \* with the symbol's category and type_name
         (LET Body(category, type_name) ==
                 IF type_name = <<>> \/ c_reconstruction_has_name(types, type_name)
                 THEN ReconstructFrom(symbols, i + 1, types, capacity, strdup_fail, realloc_ok)
                 ELSE IF Len(types) >= capacity /\ ~realloc_ok
                 THEN types
                 ELSE ReconstructFrom(symbols, i + 1,
                         Append(types,
                                [name |-> type_name, address |-> symbols[i].address,
                                 size |-> c_estimated_size_for_category(type_name, category),
                                 category |-> category,
                                 confidence |-> c_confidence_for_symbol(symbols[i].name, category)]),
                         IF Len(types) >= capacity THEN capacity * 2 ELSE capacity,
                         strdup_fail, realloc_ok)
          IN  Body(SymbolCategory(symbols[i].name),
                   SymbolTypeName(symbols[i].name, i # strdup_fail)))

\* parsed: binary_path is not NULL, the file opened, its header, load
\* commands and symbol table parsed, and the two calloc calls returned memory
c_reconstruct_types_from_binary(symbols, parsed, strdup_fail, realloc_ok) ==
    IF ~parsed THEN [null |-> TRUE, types |-> <<>>]
    ELSE [null |-> FALSE,
          types |-> ReconstructFrom(symbols, 1, <<>>, TypesCapacity, strdup_fail, realloc_ok)]

(***************************************************************************)
(* c_reconstruct_types_from_binary on symbol tables                         *)
(***************************************************************************)
\* symbol names: an Objective-C class; the bare class prefix; a Swift class;
\* a class by "objc_class"; a struct whose name is the class's; an enum; a
\* protocol; a struct that also passes the enum test; an Objective-C class
\* with a Swift-mangled name; a class by "objc_class" with "_Tt"; a function;
\* the bare protocol prefix; an enum behind its prefix; no name
SymbolNames ==
    <<<<"_","O","B","J","C","_","C","L","A","S","S","_","$","_","F","o","o">>, <<"_","O","B","J","C","_","C","L","A","S","S","_","$","_">>, <<"_","T","t","C","3","A","p","p","4","V","i","e","w">>, <<"o","b","j","c","_","c","l","a","s","s","_","F","o","o">>,
      <<"_","s","t","r","u","c","t","_","F","o","o">>, <<"M","y","E","n","u","m">>, <<"N","S","C","o","p","y","i","n","g","P","r","o","t","o","c","o","l">>, <<"s","t","r","u","c","t","E","n","u","m">>,
      <<"_","O","B","J","C","_","C","L","A","S","S","_","$","_","_","T","t","C","3","F","o","o">>, <<"o","b","j","c","_","c","l","a","s","s","_","T","t","X">>, <<"_","m","a","i","n">>, <<"_","p","r","o","t","o","c","o","l","_">>,
      <<"_","e","n","u","m","_","F","o","o">>, <<>> >>

\* longest symbol table built from SymbolNames
MaxSymbols == 2

\* the k-th symbol: address 0x1000 + 8k
Symbol(k) == [name |-> SymbolNames[k], address |-> U64OfNat(4096 + 8 * k)]

\* 33 structs with different names, one more than the first capacity
ManySymbols ==
    [k \in 1..(TypesCapacity + 1) |-> [name |-> <<"s","t","r","u","c","t">> \o Sel(k), address |-> U64OfNat(8 * k)]]

SymbolTables ==
    {ManySymbols}
    \cup UNION {[1..n -> {Symbol(k) : k \in 1..Len(SymbolNames)}] : n \in 0..MaxSymbols}

\* no call was made
NoTypes == [fn |-> "none", null |-> TRUE, types |-> <<>>, strdup_fail |-> 0,
            realloc_ok |-> TRUE]

InitTypes ==
    /\ ctx = [flags |-> {DISASM_FLAG_PROLOGUE_EPILOGUE_HEURISTICS}]
    /\ bytes = W_BL
    /\ address = Zero64
    /\ ctxarg = NoCall
    /\ inst = ZeroInst
    /\ ret = NoTypes
    /\ \E symbols \in SymbolTables : memo = [symbols |-> symbols]
    /\ ScanIdle

ReconstructTypes ==
    /\ ret.fn = "none"
    /\ \E parsed, realloc_ok \in BOOLEAN, strdup_fail \in 0..Len(memo.symbols) :
       \E r \in {c_reconstruct_types_from_binary(memo.symbols, parsed, strdup_fail, realloc_ok)} :
          ret' = [fn |-> "c_reconstruct_types_from_binary", null |-> r.null,
                  types |-> r.types, strdup_fail |-> strdup_fail, realloc_ok |-> realloc_ok]
    /\ UNCHANGED <<ctx, bytes, address, ctxarg, inst, memo>>
    /\ UNCHANGED scanvars

NextTypes == ReconstructTypes

SpecTypes == InitTypes /\ [][NextTypes]_vars

(***************************************************************************)
(* C30: classification, duplicates and confidence                           *)
(***************************************************************************)
\* the category of the first test that matches, in the order class, struct,
\* enum, protocol
FirstMatch(name) ==
    IF strstr(name, <<"_","O","B","J","C","_","C","L","A","S","S","_","$","_">>) \/ strstr(name, <<"_","T","t","C">>) \/ strstr(name, <<"o","b","j","c","_","c","l","a","s","s">>)
    THEN "C_TYPE_CATEGORY_CLASS"
    ELSE IF c_is_struct_symbol(name) THEN "C_TYPE_CATEGORY_STRUCT"
    ELSE IF c_is_enum_symbol(name) THEN "C_TYPE_CATEGORY_ENUM"
    ELSE IF c_is_protocol_symbol(name) THEN "C_TYPE_CATEGORY_PROTOCOL"
    ELSE "C_TYPE_CATEGORY_UNKNOWN"

\* the name extracted from a symbol's name
ExtractedName(name) == SymbolTypeName(name, TRUE)

\* the stated confidence, in hundredths; a Swift-mangled class is a symbol
\* of category class whose name holds the Swift type prefix "_Tt"
StatedConfidence(name) ==
    IF strstr(name, <<"_","O","B","J","C","_","C","L","A","S","S","_","$","_">>) THEN 90
    ELSE IF FirstMatch(name) = "C_TYPE_CATEGORY_CLASS" /\ strstr(name, <<"_","T","t">>) THEN 85
    ELSE IF FirstMatch(name) \in {"C_TYPE_CATEGORY_ENUM", "C_TYPE_CATEGORY_STRUCT"} THEN 75
    ELSE IF FirstMatch(name) = "C_TYPE_CATEGORY_PROTOCOL" THEN 70
    ELSE 60

\* the symbol can give a record: it has a name, a test matches, and the
\* extracted name is not empty
Eligible(sym) ==
    /\ sym.name # <<>>
    /\ FirstMatch(sym.name) # "C_TYPE_CATEGORY_UNKNOWN"
    /\ ExtractedName(sym.name) # <<>>

\* the record is the one stated for the symbol
RecordOf(sym, t) ==
    /\ Eligible(sym)
    /\ t.name = ExtractedName(sym.name)
    /\ t.category = FirstMatch(sym.name)
    /\ t.confidence = StatedConfidence(sym.name)
    /\ t.address = sym.address

\* the call returned a result
TypesReturned == ret.fn = "c_reconstruct_types_from_binary" /\ ~ret.null

\* every allocation of the call returned memory
TypesAllocated ==
    /\ ret.strdup_fail = 0
    /\ ret.realloc_ok

\* C30: every record is the one stated for a symbol of the table (category
\* of the first matching test, non-empty extracted name, stated confidence),
\* no two records share a name, and, when no allocation fails, the records
\* are those of the first symbol of each extracted name, in table order, so
\* that a symbol gets no record exactly when it has no name, matches no
\* test, has an empty extracted name or a name already present
Thm_C30 ==
    TypesReturned =>
        /\ \A k \in 1..Len(ret.types) :
              \E i \in 1..Len(memo.symbols) : RecordOf(memo.symbols[i], ret.types[k])
        /\ \A k, l \in 1..Len(ret.types) :
              ret.types[k].name = ret.types[l].name => k = l
        /\ TypesAllocated =>
              \E first \in {{i \in 1..Len(memo.symbols) :
                              /\ Eligible(memo.symbols[i])
                              /\ \A j \in 1..(i - 1) :
                                    Eligible(memo.symbols[j]) =>
                                       ExtractedName(memo.symbols[j].name)
                                          # ExtractedName(memo.symbols[i].name)}} :
                 /\ Len(ret.types) = Cardinality(first)
                 /\ \A k \in 1..Len(ret.types) :
                       \E i \in first :
                          /\ RecordOf(memo.symbols[i], ret.types[k])
                          /\ Cardinality({j \in first : j <= i}) = k

\* a table whose second symbol was dropped for its name "Foo", which the
\* record of the Objective-C class before it has, with confidence 0.9
Witness_C30 ==
    /\ TypesReturned
    /\ TypesAllocated
    /\ Len(memo.symbols) = 2
    /\ Eligible(memo.symbols[2])
    /\ FirstMatch(memo.symbols[2].name) = "C_TYPE_CATEGORY_STRUCT"
    /\ Len(ret.types) = 1
    /\ ret.types[1].confidence = 90
    /\ ret.types[1].name = ExtractedName(memo.symbols[2].name)

====
